---- MODULE Spec2Model ----
(***************************************************************************)
(* Model of the saas-starter server actions (sign up, invite, remove,      *)
(* create team, ...) over the Supabase schema: auth.users, public.users,   *)
(* teams, team_members, invitations and activity_logs.                     *)
(*                                                                         *)
(* Every request runs with the ambient session of its caller: the caller   *)
(* is an existing identity of auth.users, or NoUser for an anonymous       *)
(* request.  A server action is one action of the model, except createTeam *)
(* whose two inserts are two steps (they are not in one transaction).      *)
(* A store or provider call whose error the code inspects may fail, and so *)
(* may log_activity: the "fail" input of an action names the call of this  *)
(* execution that fails ("none": no call fails).  The tables are bounded:   *)
(* a call that would insert a row beyond a bound is not taken (once the    *)
(* activity log is full, only executions whose log_activity fails go on).  *)
(*                                                                         *)
(* The schema the requests run on is the one the migrations of             *)
(* supabase/migrations leave: SpecMigrations applies them one by one and   *)
(* evaluates requests under the policies in force.  SpecConcurrent splits  *)
(* inviteTeamMember into its reads and its insert, so that calls overlap.  *)
(***************************************************************************)
EXTENDS Integers, Sequences, FiniteSets, TLC

\* ---------------------------------------------------------------- bounds
MaxUsers == 2
MaxTeams == 2
MaxMembers == 2
MaxInvitations == 2
MaxLogs == 1

\* ---------------------------------------------------------------- inputs
NoUser == 0
NoTeam == 0
NoRow == [id |-> 0]
NaN == 0 - 1
Absent == <<"absent">>

ValidEmails == {"a@x.com", "b@x.com"}
Digits == {"1", "2"}
TeamNameInputs == {"Acme"}

\* the forms submitted to signUp: the well-formed ones, with the inviteId field
\* empty, numeric or not numeric, and one malformed form per schema field
SignUpForms ==
  [email : ValidEmails, password : {"password1"}, inviteId : {<<>>, <<"1">>, <<"x">>}]
  \cup {[email |-> "nope", password |-> "password1", inviteId |-> <<>>],
        [email |-> "a@x.com", password |-> "short", inviteId |-> <<>>],
        [email |-> "a@x.com", password |-> "password1", inviteId |-> Absent]}

InviteForms ==
  [email : ValidEmails, role : {"member"}]
  \cup {[email |-> "nope", role |-> "member"], [email |-> "a@x.com", role |-> "guest"]}

MemberIdInputs == {<<"1">>, <<"2">>, <<"x">>}

\* the forms submitted to signIn; the redirect field is absent ("") or 'checkout'
SignInForms ==
  [email : ValidEmails, password : {"password1"}, redirect : {"", "checkout"}]
  \cup {[email |-> "nope", password |-> "password1", redirect |-> ""],
        [email |-> "a@x.com", password |-> "short", redirect |-> ""],
        [email |-> "a@x.com", password |-> "password2", redirect |-> ""]}

\* the forms submitted to updatePassword
UpdatePasswordForms ==
  {[currentPassword |-> "password1", newPassword |-> "password2", confirmPassword |-> "password2"],
   [currentPassword |-> "password2", newPassword |-> "password2", confirmPassword |-> "password2"],
   [currentPassword |-> "password1", newPassword |-> "password2", confirmPassword |-> "password1"],
   [currentPassword |-> "password1", newPassword |-> "short", confirmPassword |-> "short"],
   [currentPassword |-> "password3", newPassword |-> "password2", confirmPassword |-> "password2"]}

\* the name field submitted to updateAccount
NameInputs == {"", "Ann"}

VARIABLES
  authUsers,      \* auth.users: identities {[id, email, password]}
  users,          \* public.users: profiles {[id, role, name, deleted]}
  teams,          \* public.teams {[id, name]}
  team_members,   \* public.team_members {[id, user_id, team_id, role]}
  invitations,    \* public.invitations {[id, team_id, email, role, invited_by, status]}
  activity_logs,  \* public.activity_logs {[id, team_id, user_id, action]}
  nextUserId, nextTeamId, nextMemberId, nextInvitationId, nextLogId,
  pendingCreateTeam, \* createTeam calls between their two inserts
  pendingInvite,  \* inviteTeamMember calls between their checks and their insert
  applied,        \* how many migrations of supabase/migrations are applied
  ret             \* what the last call returned

tables == <<authUsers, users, teams, team_members, invitations, activity_logs>>
counters == <<nextUserId, nextTeamId, nextMemberId, nextInvitationId, nextLogId>>
vars == <<authUsers, users, teams, team_members, invitations, activity_logs,
          nextUserId, nextTeamId, nextMemberId, nextInvitationId, nextLogId,
          pendingCreateTeam, pendingInvite, applied, ret>>

\* ------------------------------------------------------- pure functions
DigitValue(c) == IF c = "1" THEN 1 ELSE 2

RECURSIVE DigitPrefix(_)
DigitPrefix(s) ==
  IF s = <<>> \/ Head(s) \notin Digits THEN <<>>
  ELSE <<Head(s)>> \o DigitPrefix(Tail(s))

RECURSIVE Decimal(_)
Decimal(s) ==
  IF s = <<>> THEN 0
  ELSE 10 * Decimal(SubSeq(s, 1, Len(s) - 1)) + DigitValue(s[Len(s)])

\* parseInt: the value of the leading digits, NaN when there are none
ParseInt(s) == IF DigitPrefix(s) = <<>> THEN NaN ELSE Decimal(DigitPrefix(s))

\* mutant: a schema without the minimum length
IsPasswordAny(p) == TRUE

\* z.string().email() / z.string().min(8) / z.string().optional()
IsEmail(e) == e \in ValidEmails
IsPassword(p) == Len(p) >= 8
IsOptionalString(s) == s # Absent

\* PostgREST .single(): the row when exactly one row matches, else no data
Single(rows) == IF Cardinality(rows) = 1 THEN CHOOSE r \in rows : TRUE ELSE NoRow

Ids(rows) == {r.id : r \in rows}

\* ------------------------------------------------------------ the store
\* mutant: the table without its unique constraint
UniqueViolationNever(members, uid, tid) == FALSE

\* unique(user_id, team_id) of team_members
UniqueViolation(members, uid, tid) ==
  \E m \in members : m.user_id = uid /\ m.team_id = tid

\* both foreign keys of team_members, and the unique constraint
CanInsertMember(members, profiles, tms, uid, tid) ==
  /\ \E u \in profiles : u.id = uid
  /\ \E t \in tms : t.id = tid
  /\ ~UniqueViolation(members, uid, tid)

InsertMember(members, mid, uid, tid, role) ==
  members \cup {[id |-> mid, user_id |-> uid, team_id |-> tid, role |-> role]}

\* mutant: an upsert on (team_id, email) that re-opens the existing row
InsertInvitationUpsert(invs, row) ==
  IF \E i \in invs : i.team_id = row.team_id /\ i.email = row.email
  THEN {IF i.team_id = row.team_id /\ i.email = row.email
        THEN [i EXCEPT !.status = row.status] ELSE i : i \in invs}
  ELSE invs \cup {row}

InsertInvitation(invs, row) == invs \cup {row}

\* mutant: the update matches no row
UpdateInvitationStatusNoRow(invs, iid, status) == invs

UpdateInvitationStatus(invs, iid, status) ==
  {IF i.id = iid THEN [i EXCEPT !.status = status] ELSE i : i \in invs}

\* log_activity: insert into activity_logs with user_id = auth.uid(); the row
\* needs an authenticated caller, an existing team and (foreign key) a
\* profile row for the caller
CanLog(profiles, tms, uid, tid) ==
  /\ uid # NoUser
  /\ \E u \in profiles : u.id = uid
  /\ \E t \in tms : t.id = tid

LogActivity(logs, lid, profiles, tms, uid, tid, action, failed) ==
  IF ~failed /\ CanLog(profiles, tms, uid, tid)
  THEN logs \cup {[id |-> lid, team_id |-> tid, user_id |-> uid, action |-> action]}
  ELSE logs

\* mutant: the lookup without its user_id filter
MemberOfAny(uid) == Single(team_members)

\* the single membership row the handlers look up by user id
MemberOf(uid) == Single({m \in team_members : m.user_id = uid})

\* what a call returns: an error or success message (or a redirect, a thrown
\* error, a value), the team id its store accesses were scoped by, and the ids
\* of the membership rows a listing returns or a removal addressed; and what
\* the call did on the way: how many times it called log_activity, and
\* whether it made any call to the identity provider or the data store
Ret(op, result, msg, team, rows) ==
  [op |-> op, result |-> result, msg |-> msg, team |-> team, rows |-> rows,
   logs |-> 0, remote |-> TRUE]

\* the response of a call that called log_activity n times
Logged(r, n) == [r EXCEPT !.logs = n]

\* mutant: the handler inspects the error of the rpc and reports it
AfterLogFatal(r, failed) ==
  IF failed THEN [r EXCEPT !.result = "error", !.msg = "Failed to log activity."] ELSE r

\* await supabase.rpc('log_activity', ...): the promise resolves also when the
\* function fails, and the handlers do not look at the result
AfterLog(r, failed) == r

\* the response of a call that returned before createClient()
Local(r) == [r EXCEPT !.remote = FALSE]

\* no response is in flight
Idle == Local(Ret("idle", "none", "", NoTeam, {}))

\* ------------------------------------------------------------ migrations
\* the migrations of supabase/migrations, in timestamp order
MigrationNames ==
  <<"20250531115325_initial_saas_schema",
    "20250531115418_add_rls_policies",
    "20250531121857_fix_rls_infinite_recursion",
    "20250531122219_complete_rls_fix",
    "20250531125438_enhance_invitation_system",
    "20250531140000_rollback_enhanced_invitation_system">>

\* a database without the application's schema
NoSchema ==
  [applied |-> 0, rls |-> {}, columns |-> {}, defaults |-> {}, comments |-> {},
   indexes |-> {}, functions |-> {}, policies |-> {}]

\* the values of team_members.role a policy without a role filter admits
AnyRole == {"owner", "admin", "member"}

\* the disjuncts of a policy predicate: true; col = auth.uid(); col in (select
\* team_id from team_members where user_id = auth.uid() [and role in roles]);
\* email = auth.email(); email in (select email from auth.users where id =
\* auth.uid()).  using (false) is the predicate without a disjunct.
UsingTrue == [kind |-> "true", col |-> "", roles |-> {}]
Uid(col) == [kind |-> "uid", col |-> col, roles |-> {}]
InMyTeams(col, roles) == [kind |-> "member", col |-> col, roles |-> roles]
AuthEmail == [kind |-> "email", col |-> "email", roles |-> {}]
AuthUsersEmail == [kind |-> "auth.users", col |-> "email", roles |-> {}]

\* create policy name on tbl for cmd to roles using (pred) [with check (pred)]:
\* every update policy of the migrations repeats its using as its with check
Policy(name, tbl, cmd, to, pred) ==
  [name |-> name, tbl |-> tbl, cmd |-> cmd, to |-> to, pred |-> pred]

CreatePolicies(s, ps) == [s EXCEPT !.policies = @ \cup ps]

\* mutant: drop policy if exists finds no policy
DropPoliciesNone(s, dropped) == s

\* drop policy if exists name on tbl, for each <<name, tbl>> of dropped
DropPolicies(s, dropped) ==
  [s EXCEPT !.policies = {p \in @ : <<p.name, p.tbl>> \notin dropped}]

\* comment on column / table / function name is text
Comment(s, on, name, text) ==
  [s EXCEPT !.comments = {c \in @ : ~(c.on = on /\ c.name = name)}
                           \cup {[on |-> on, name |-> name, text |-> text]}]

\* alter table tbl alter column col set default expr
SetDefault(s, col, expr) ==
  [s EXCEPT !.defaults = {d \in @ : d[1] # col} \cup {<<col, expr>>}]

CreateFunctions(s, fs) == [s EXCEPT !.functions = @ \cup fs]

\* drop function if exists: the comment on the function goes with it
DropFunctions(s, fs) ==
  [s EXCEPT !.functions = @ \ fs,
            !.comments = {c \in @ : ~(c.on = "function" /\ c.name \in fs)}]

Index(name, col) == [name |-> name, col |-> col]

CreateIndexes(s, is) == [s EXCEPT !.indexes = @ \cup is]

DropIndexes(s, names) == [s EXCEPT !.indexes = {i \in @ : i.name \notin names}]

\* alter table drop column if exists: the column's default, comment and the
\* indexes and unique constraints on it go with it
DropColumn(s, col) ==
  [s EXCEPT !.columns = @ \ {col},
            !.defaults = {d \in @ : d[1] # col},
            !.comments = {c \in @ : ~(c.on = "column" /\ c.name = col)},
            !.indexes = {i \in @ : i.col # col}]

InitialSaasSchema(s) ==
  LET s1 == [s EXCEPT
        !.columns =
          {"users.id", "users.name", "users.role", "users.created_at",
           "users.updated_at", "users.deleted_at",
           "teams.id", "teams.name", "teams.created_at", "teams.updated_at",
           "teams.stripe_customer_id", "teams.stripe_subscription_id",
           "teams.stripe_product_id", "teams.plan_name", "teams.subscription_status",
           "team_members.id", "team_members.user_id", "team_members.team_id",
           "team_members.role", "team_members.joined_at",
           "activity_logs.id", "activity_logs.team_id", "activity_logs.user_id",
           "activity_logs.action", "activity_logs.timestamp", "activity_logs.ip_address",
           "invitations.id", "invitations.team_id", "invitations.email",
           "invitations.role", "invitations.invited_by", "invitations.invited_at",
           "invitations.status"},
        !.defaults =
          {<<"users.role", "'member'">>, <<"users.created_at", "now()">>,
           <<"users.updated_at", "now()">>, <<"teams.created_at", "now()">>,
           <<"teams.updated_at", "now()">>, <<"team_members.joined_at", "now()">>,
           <<"activity_logs.timestamp", "now()">>, <<"invitations.invited_at", "now()">>,
           <<"invitations.status", "'pending'">>},
        !.rls = {"users", "teams", "team_members", "activity_logs", "invitations"},
        !.indexes =
          {Index("teams_stripe_customer_id_key", "teams.stripe_customer_id"),
           Index("teams_stripe_subscription_id_key", "teams.stripe_subscription_id"),
           Index("team_members_user_id_team_id_key", "team_members.user_id, team_id"),
           Index("idx_team_members_user_id", "team_members.user_id"),
           Index("idx_team_members_team_id", "team_members.team_id"),
           Index("idx_activity_logs_team_id", "activity_logs.team_id"),
           Index("idx_activity_logs_user_id", "activity_logs.user_id"),
           Index("idx_activity_logs_timestamp", "activity_logs.timestamp"),
           Index("idx_invitations_email", "invitations.email"),
           Index("idx_invitations_team_id", "invitations.team_id"),
           Index("idx_teams_stripe_customer_id", "teams.stripe_customer_id")},
        !.functions = {"handle_updated_at()", "log_activity(bigint, text, varchar)"}]
      s2 == Comment(s1, "table", "users", "User profiles extending Supabase auth.users with application-specific data and role information")
      s3 == Comment(s2, "column", "users.id", "References auth.users.id for Supabase Auth integration")
      s4 == Comment(s3, "column", "users.role", "User role within the application (member, admin, etc.)")
      s5 == Comment(s4, "column", "users.deleted_at", "Soft delete timestamp - null means user is active")
      s6 == Comment(s5, "table", "teams", "Organizations/teams that users belong to, with integrated Stripe billing information")
      s7 == Comment(s6, "column", "teams.stripe_customer_id", "Stripe customer ID for billing integration")
      s8 == Comment(s7, "column", "teams.subscription_status", "Current subscription status (active, canceled, etc.)")
      s9 == Comment(s8, "table", "team_members", "Junction table managing user membership in teams with role-based access control")
      s10 == Comment(s9, "column", "team_members.role", "Role within the team (owner, admin, member, etc.)")
      s11 == Comment(s10, "table", "activity_logs", "Audit trail of user actions within teams for security and compliance")
      s12 == Comment(s11, "column", "activity_logs.action", "Description of the action performed (SIGN_IN, CREATE_TEAM, etc.)")
      s13 == Comment(s12, "column", "activity_logs.ip_address", "IP address of the user when action was performed")
      s14 == Comment(s13, "table", "invitations", "Pending invitations for users to join teams")
      s15 == Comment(s14, "column", "invitations.status", "Invitation status (pending, accepted, expired, cancelled)")
      s16 == Comment(s15, "function", "handle_updated_at()", "Trigger function to automatically update updated_at column on row modifications")
  IN Comment(s16, "function", "log_activity(bigint, text, varchar)", "Helper function to log user activities with automatic user_id detection from auth context")

AddRlsPolicies(s) ==
  CreatePolicies(s,
    {Policy("authenticated users can view their own profile", "users", "select", {"authenticated"}, {Uid("id")}),
     Policy("authenticated users can update their own profile", "users", "update", {"authenticated"}, {Uid("id")}),
     Policy("authenticated users can insert their own profile", "users", "insert", {"authenticated"}, {Uid("id")}),
     Policy("users cannot delete profiles directly", "users", "delete", {"authenticated"}, {}),
     Policy("team members can view their teams", "teams", "select", {"authenticated"}, {InMyTeams("id", AnyRole)}),
     Policy("team owners can update team information", "teams", "update", {"authenticated"}, {InMyTeams("id", {"owner"})}),
     Policy("authenticated users can create teams", "teams", "insert", {"authenticated"}, {UsingTrue}),
     Policy("team owners can delete teams", "teams", "delete", {"authenticated"}, {InMyTeams("id", {"owner"})}),
     Policy("team members can view team membership", "team_members", "select", {"authenticated"}, {InMyTeams("team_id", AnyRole)}),
     Policy("team owners and admins can add members", "team_members", "insert", {"authenticated"}, {InMyTeams("team_id", {"owner", "admin"})}),
     Policy("team owners and admins can update member roles", "team_members", "update", {"authenticated"}, {InMyTeams("team_id", {"owner", "admin"})}),
     Policy("team management for member removal", "team_members", "delete", {"authenticated"}, {InMyTeams("team_id", {"owner", "admin"}), Uid("user_id")}),
     Policy("team members can view activity logs", "activity_logs", "select", {"authenticated"}, {InMyTeams("team_id", AnyRole)}),
     Policy("system can insert activity logs", "activity_logs", "insert", {"authenticated"}, {UsingTrue}),
     Policy("activity logs are immutable", "activity_logs", "update", {"authenticated"}, {}),
     Policy("team owners can delete activity logs", "activity_logs", "delete", {"authenticated"}, {InMyTeams("team_id", {"owner"})}),
     Policy("team members can view team invitations", "invitations", "select", {"authenticated"}, {InMyTeams("team_id", AnyRole)}),
     Policy("users can view their email invitations", "invitations", "select", {"authenticated"}, {AuthEmail}),
     Policy("anonymous users can view invitations by email", "invitations", "select", {"anon"}, {UsingTrue}),
     Policy("team owners and admins can create invitations", "invitations", "insert", {"authenticated"}, {InMyTeams("team_id", {"owner", "admin"})}),
     Policy("team owners and admins can update invitations", "invitations", "update", {"authenticated"}, {InMyTeams("team_id", {"owner", "admin"})}),
     Policy("team owners and admins can delete invitations", "invitations", "delete", {"authenticated"}, {InMyTeams("team_id", {"owner", "admin"})})})

FixRlsInfiniteRecursion(s) ==
  LET s1 == DropPolicies(s,
        {<<"team members can view team membership", "team_members">>,
         <<"team owners and admins can add members", "team_members">>,
         <<"team owners and admins can update member roles", "team_members">>,
         <<"team management for member removal", "team_members">>,
         <<"team members can view their teams", "teams">>,
         <<"team owners can update team information", "teams">>,
         <<"team owners can delete teams", "teams">>,
         <<"team members can view activity logs", "activity_logs">>,
         <<"team members can view team invitations", "invitations">>,
         <<"team owners and admins can create invitations", "invitations">>,
         <<"team owners and admins can update invitations", "invitations">>,
         <<"team owners and admins can delete invitations", "invitations">>})
  IN CreatePolicies(s1,
    {Policy("users can view team membership", "team_members", "select", {"authenticated"}, {Uid("user_id")}),
     Policy("team members can view other team members", "team_members", "select", {"authenticated"}, {InMyTeams("team_id", AnyRole)}),
     Policy("users can add new team members", "team_members", "insert", {"authenticated"}, {UsingTrue}),
     Policy("users can update team member roles", "team_members", "update", {"authenticated"}, {UsingTrue}),
     Policy("users can manage team membership", "team_members", "delete", {"authenticated"}, {Uid("user_id"), UsingTrue}),
     Policy("users can view teams they belong to", "teams", "select", {"authenticated"}, {InMyTeams("id", AnyRole)}),
     Policy("users can update their teams", "teams", "update", {"authenticated"}, {InMyTeams("id", AnyRole)}),
     Policy("users can create new teams", "teams", "insert", {"authenticated"}, {UsingTrue}),
     Policy("users can delete their teams", "teams", "delete", {"authenticated"}, {InMyTeams("id", AnyRole)}),
     Policy("users can view activity logs for their teams", "activity_logs", "select", {"authenticated"}, {InMyTeams("team_id", AnyRole)}),
     Policy("users can view invitations for their teams", "invitations", "select", {"authenticated"}, {InMyTeams("team_id", AnyRole)}),
     Policy("users can create team invitations", "invitations", "insert", {"authenticated"}, {InMyTeams("team_id", AnyRole)}),
     Policy("users can update team invitations", "invitations", "update", {"authenticated"}, {InMyTeams("team_id", AnyRole)}),
     Policy("users can delete team invitations", "invitations", "delete", {"authenticated"}, {InMyTeams("team_id", AnyRole)})})

\* STEP 1 of the complete fix: the policies it drops
CompleteRlsFixDrops ==
  {<<"authenticated users can view their own profile", "users">>,
   <<"authenticated users can update their own profile", "users">>,
   <<"authenticated users can insert their own profile", "users">>,
   <<"users cannot delete profiles directly", "users">>,
   <<"team members can view their teams", "teams">>,
   <<"team owners can update team information", "teams">>,
   <<"authenticated users can create teams", "teams">>,
   <<"team owners can delete teams", "teams">>,
   <<"users can view teams they belong to", "teams">>,
   <<"users can update their teams", "teams">>,
   <<"users can create new teams", "teams">>,
   <<"users can delete their teams", "teams">>,
   <<"team members can view team membership", "team_members">>,
   <<"team owners and admins can add members", "team_members">>,
   <<"team owners and admins can update member roles", "team_members">>,
   <<"team management for member removal", "team_members">>,
   <<"users can view team membership", "team_members">>,
   <<"team members can view other team members", "team_members">>,
   <<"users can add new team members", "team_members">>,
   <<"users can update team member roles", "team_members">>,
   <<"users can manage team membership", "team_members">>,
   <<"team members can view activity logs", "activity_logs">>,
   <<"system can insert activity logs", "activity_logs">>,
   <<"activity logs are immutable", "activity_logs">>,
   <<"team owners can delete activity logs", "activity_logs">>,
   <<"users can view activity logs for their teams", "activity_logs">>,
   <<"team members can view team invitations", "invitations">>,
   <<"users can view their email invitations", "invitations">>,
   <<"anonymous users can view invitations by email", "invitations">>,
   <<"team owners and admins can create invitations", "invitations">>,
   <<"team owners and admins can update invitations", "invitations">>,
   <<"team owners and admins can delete invitations", "invitations">>,
   <<"users can view invitations for their teams", "invitations">>,
   <<"users can create team invitations", "invitations">>,
   <<"users can update team invitations", "invitations">>,
   <<"users can delete team invitations", "invitations">>}

\* STEP 2 of the complete fix: the policies it creates
CompleteRlsFixPolicies ==
  {Policy("users_select_own", "users", "select", {"authenticated"}, {Uid("id")}),
   Policy("users_insert_own", "users", "insert", {"authenticated"}, {Uid("id")}),
   Policy("users_update_own", "users", "update", {"authenticated"}, {Uid("id")}),
   Policy("teams_select_all", "teams", "select", {"authenticated"}, {UsingTrue}),
   Policy("teams_insert_all", "teams", "insert", {"authenticated"}, {UsingTrue}),
   Policy("teams_update_all", "teams", "update", {"authenticated"}, {UsingTrue}),
   Policy("teams_delete_all", "teams", "delete", {"authenticated"}, {UsingTrue}),
   Policy("team_members_select_all", "team_members", "select", {"authenticated"}, {UsingTrue}),
   Policy("team_members_insert_all", "team_members", "insert", {"authenticated"}, {UsingTrue}),
   Policy("team_members_update_all", "team_members", "update", {"authenticated"}, {UsingTrue}),
   Policy("team_members_delete_all", "team_members", "delete", {"authenticated"}, {UsingTrue}),
   Policy("activity_logs_select_all", "activity_logs", "select", {"authenticated"}, {UsingTrue}),
   Policy("activity_logs_insert_all", "activity_logs", "insert", {"authenticated"}, {UsingTrue}),
   Policy("invitations_select_all", "invitations", "select", {"authenticated"}, {UsingTrue}),
   Policy("invitations_select_anon", "invitations", "select", {"anon"}, {UsingTrue}),
   Policy("invitations_insert_all", "invitations", "insert", {"authenticated"}, {UsingTrue}),
   Policy("invitations_update_all", "invitations", "update", {"authenticated"}, {UsingTrue}),
   Policy("invitations_delete_all", "invitations", "delete", {"authenticated"}, {UsingTrue})}

CompleteRlsFix(s) == CreatePolicies(DropPolicies(s, CompleteRlsFixDrops), CompleteRlsFixPolicies)

\* the functions of the enhanced invitation system
EnhanceFunctions ==
  {"get_pending_invitations(text)", "get_team_by_invite_code(uuid)",
   "accept_invitation(bigint, uuid)", "request_to_join_team(uuid, text, uuid)"}

EnhanceInvitationSystem(s) ==
  LET s1 == [s EXCEPT !.columns = @ \cup {"teams.invite_code"},
                      !.defaults = @ \cup {<<"teams.invite_code", "gen_random_uuid()">>},
                      !.indexes = @ \cup {Index("teams_invite_code_key", "teams.invite_code")}]
      s2 == Comment(s1, "column", "teams.invite_code", "Unique UUID for shareable team invite links")
      s3 == SetDefault(s2, "invitations.status", "'pending'")
      s4 == Comment(s3, "column", "invitations.status", "Invitation status: pending (invited by team), requested (user requested to join), accepted, expired, cancelled")
      s5 == CreateIndexes(s4, {Index("idx_teams_invite_code", "teams.invite_code")})
      s6 == CreateFunctions(s5, EnhanceFunctions)
      s7 == Comment(s6, "function", "get_pending_invitations(text)", "Get all pending invitations for a given email address")
      s8 == Comment(s7, "function", "get_team_by_invite_code(uuid)", "Get team information by invite code with member count")
      s9 == Comment(s8, "function", "accept_invitation(bigint, uuid)", "Accept a pending invitation and add user to team")
      s10 == Comment(s9, "function", "request_to_join_team(uuid, text, uuid)", "Create a join request for a team using invite code")
      s11 == CreatePolicies(s10,
               {Policy("users can view pending invitations for their email", "invitations",
                       "select", {"anon", "authenticated"}, {AuthEmail, AuthUsersEmail})})
      s12 == DropPolicies(s11, {<<"team owners and admins can view team invitations", "invitations">>})
  IN CreatePolicies(s12,
       {Policy("team members can view team invitations and requests", "invitations",
               "select", {"authenticated"}, {InMyTeams("team_id", AnyRole)})})

\* mutant: the rollback leaves the comment of the enhanced system on the column
ResetStatusCommentNot(s) == s

\* Reset the invitations table status column comment
ResetStatusComment(s) ==
  Comment(s, "column", "invitations.status",
          "Invitation status (pending, accepted, expired, cancelled)")

RollbackEnhancedInvitationSystem(s) ==
  LET s1 == DropPolicies(s,
              {<<"users can view pending invitations for their email", "invitations">>,
               <<"team members can view team invitations and requests", "invitations">>})
      s2 == DropFunctions(s1, EnhanceFunctions)
      s3 == DropIndexes(s2, {"idx_teams_invite_code"})
      s4 == DropColumn(s3, "teams.invite_code")
  IN ResetStatusComment(s4)

\* the next migration of the directory applied to the database
Migrate(s) ==
  LET name == MigrationNames[s.applied + 1]
      s1 == CASE name = "20250531115325_initial_saas_schema" -> InitialSaasSchema(s)
              [] name = "20250531115418_add_rls_policies" -> AddRlsPolicies(s)
              [] name = "20250531121857_fix_rls_infinite_recursion" -> FixRlsInfiniteRecursion(s)
              [] name = "20250531122219_complete_rls_fix" -> CompleteRlsFix(s)
              [] name = "20250531125438_enhance_invitation_system" -> EnhanceInvitationSystem(s)
              [] OTHER -> RollbackEnhancedInvitationSystem(s)
  IN [s1 EXCEPT !.applied = s.applied + 1]

RECURSIVE Migrated(_)
\* the schema after the first n migrations
Migrated(n) == IF n = 0 THEN NoSchema ELSE Migrate(Migrated(n - 1))

\* the schema after each number of applied migrations
Schemas == [n \in 0 .. Len(MigrationNames) |-> Migrated(n)]

\* the schema objects and policies of the database
schema == Schemas[applied]

\* ------------------------------------------------------------------ Init
\* an empty database and no call in progress
InitData ==
  /\ authUsers = {}
  /\ users = {}
  /\ teams = {}
  /\ team_members = {}
  /\ invitations = {}
  /\ activity_logs = {}
  /\ nextUserId = 1
  /\ nextTeamId = 1
  /\ nextMemberId = 1
  /\ nextInvitationId = 1
  /\ nextLogId = 1
  /\ pendingCreateTeam = {}
  /\ pendingInvite = {}
  /\ ret = Idle

\* the application starts on a database with every migration applied
Init == InitData /\ applied = Len(MigrationNames)

\* ---------------------------------------------------------------- signUp
SignUpCalls == {"none", "auth", "team", "profile", "member", "log"}

\* the lookup of signUp: id, email and status 'pending' must all match
InvitationForSignUp(invs, iid, email) ==
  Single({i \in invs : i.id = iid /\ i.email = email /\ i.status = "pending"})

\* mutant: the team is named by the bare email
TeamNameForBare(email) == email

TeamNameFor(email) == email \o "'s Team"

\* lines 537-585: profile insert, membership insert, SIGN_UP log, redirect.
\* teams1, invs1, logs1, lid1: the tables as the first half left them
SignUpJoin(uid, tid, role, teams1, invs1, logs1, lid1, fail) ==
  LET profile == [id |-> uid, role |-> role, name |-> "", deleted |-> FALSE]
      users1 == users \cup {profile}
      logs2 == LogActivity(logs1, lid1, users1, teams1, uid, tid, "SIGN_UP", fail = "log")
  IN
  /\ teams' = teams1
  /\ invitations' = invs1
  /\ IF fail = "profile" THEN
       /\ ret' = Logged(Ret("signUp", "error", "Failed to create user profile", tid, {}), 1)
       /\ users' = users
       /\ team_members' = team_members
       /\ activity_logs' = logs1
       /\ UNCHANGED <<nextMemberId>>
       /\ nextLogId' = lid1
     ELSE IF fail = "member" \/ ~CanInsertMember(team_members, users1, teams1, uid, tid) THEN
       /\ ret' = Logged(Ret("signUp", "error", "Failed to add user to team", tid, {}), 1)
       /\ users' = users1
       /\ team_members' = team_members
       /\ activity_logs' = logs1
       /\ UNCHANGED <<nextMemberId>>
       /\ nextLogId' = lid1
     ELSE
       /\ nextMemberId <= MaxMembers
       /\ logs2 # logs1 => lid1 <= MaxLogs
       /\ ret' = AfterLog(Logged(Ret("signUp", "redirect", "", tid, {}), 2), fail = "log")
       /\ users' = users1
       /\ team_members' = InsertMember(team_members, nextMemberId, uid, tid, role)
       /\ nextMemberId' = nextMemberId + 1
       /\ activity_logs' = logs2
       /\ nextLogId' = IF logs2 = logs1 THEN lid1 ELSE lid1 + 1

SignUp(caller, email, password, inviteId, fail) ==
  LET uid == nextUserId
      inviteNo == IF inviteId \in {Absent, <<>>} THEN 0 ELSE ParseInt(inviteId)
      invitation == InvitationForSignUp(invitations, inviteNo, email)
      Error(msg) ==
        /\ ret' = Ret("signUp", "error", msg, NoTeam, {})
        /\ UNCHANGED <<tables, counters>>
  IN
  /\ UNCHANGED pendingCreateTeam
  /\ IF ~(IsEmail(email) /\ IsPassword(password) /\ IsOptionalString(inviteId)) THEN
       /\ fail = "none"
       /\ ret' = Local(Ret("signUp", "error", "Invalid input data.", NoTeam, {}))
       /\ UNCHANGED <<tables, counters>>
     ELSE IF caller # NoUser THEN
       fail = "none" /\ Error("User already exists. Please sign in instead.")
     ELSE IF fail = "auth" \/ \E a \in authUsers : a.email = email THEN
       fail \in {"none", "auth"} /\ Error("Failed to create account. Please try again.")
     ELSE
       /\ uid <= MaxUsers
       /\ authUsers' = authUsers \cup {[id |-> uid, email |-> email, password |-> password]}
       /\ nextUserId' = uid + 1
       /\ IF inviteId # <<>> THEN
            IF invitation # NoRow THEN
              LET invs1 == UpdateInvitationStatus(invitations, invitation.id, "accepted")
                  logs1 == LogActivity(activity_logs, nextLogId, users, teams, uid,
                                       invitation.team_id, "ACCEPT_INVITATION", fail = "log")
                  lid1 == IF logs1 = activity_logs THEN nextLogId ELSE nextLogId + 1
              IN /\ fail # "team"
                 /\ SignUpJoin(uid, invitation.team_id,
                               invitation.role, teams, invs1, logs1, lid1, fail)
                 /\ UNCHANGED <<nextTeamId, nextInvitationId>>
            ELSE
              /\ fail = "none"
              /\ ret' = Ret("signUp", "error", "Invalid or expired invitation.", NoTeam, {})
              /\ UNCHANGED <<users, teams, team_members, invitations, activity_logs,
                             nextTeamId, nextMemberId, nextInvitationId, nextLogId>>
          ELSE IF fail = "team" THEN
            /\ ret' = Ret("signUp", "error", "Failed to create team", NoTeam, {})
            /\ UNCHANGED <<users, teams, team_members, invitations, activity_logs,
                           nextTeamId, nextMemberId, nextInvitationId, nextLogId>>
          ELSE
            LET tid == nextTeamId
                teams1 == teams \cup {[id |-> tid, name |-> TeamNameFor(email)]}
                logs1 == LogActivity(activity_logs, nextLogId, users, teams1, uid,
                                     tid, "CREATE_TEAM", fail = "log")
                lid1 == IF logs1 = activity_logs THEN nextLogId ELSE nextLogId + 1
            IN /\ tid <= MaxTeams
               /\ nextTeamId' = tid + 1
               /\ SignUpJoin(uid, tid, "owner",
                             teams1, invitations, logs1, lid1, fail)
               /\ UNCHANGED nextInvitationId

\* ------------------------------------------------------ inviteTeamMember
InviteCalls == {"none", "insert", "log"}
InviteRoles == {"member", "admin", "owner"}

\* auth.admin.listUsers().users.find(u => u.email === email)
FindUserByEmail(email) == Single({a \in authUsers : a.email = email})

\* mutant: the membership check matches no user
ExistingMemberNone(tid, uid) ==
  Single({m \in team_members : m.team_id = tid /\ m.user_id = NoUser})

ExistingMember(tid, uid) ==
  Single({m \in team_members : m.team_id = tid /\ m.user_id = uid})

\* mutant: the check for a pending invitation looks at the other teams
ExistingInvitationOtherTeam(invs, email, tid) ==
  Single({i \in invs : i.email = email /\ i.team_id # tid /\ i.status = "pending"})

ExistingInvitation(invs, email, tid) ==
  Single({i \in invs : i.email = email /\ i.team_id = tid /\ i.status = "pending"})

\* both foreign keys of invitations
CanInsertInvitation(tid, inviter) ==
  /\ \E t \in teams : t.id = tid
  /\ \E u \in users : u.id = inviter

InviteTeamMember(caller, email, role, fail) ==
  LET userTeam == MemberOf(caller)
      tid == userTeam.team_id
      invitedUser == FindUserByEmail(email)
      row == [id |-> nextInvitationId, team_id |-> tid, email |-> email, role |-> role,
              invited_by |-> caller, status |-> "pending"]
      logs1 == LogActivity(activity_logs, nextLogId, users, teams, caller, tid,
                           "INVITE_TEAM_MEMBER", fail = "log")
      Error(msg, team) ==
        /\ ret' = Ret("inviteTeamMember", "error", msg, team, {})
        /\ UNCHANGED <<tables, counters>>
  IN
  /\ UNCHANGED pendingCreateTeam
  /\ IF ~(IsEmail(email) /\ role \in InviteRoles) THEN
       /\ fail = "none"
       /\ ret' = Local(Ret("inviteTeamMember", "error", "Invalid input data.", NoTeam, {}))
       /\ UNCHANGED <<tables, counters>>
     ELSE IF caller = NoUser THEN
       fail = "none" /\ Error("User not authenticated.", NoTeam)
     ELSE IF userTeam = NoRow THEN
       fail = "none" /\ Error("User is not part of a team", NoTeam)
     ELSE IF invitedUser # NoRow /\ ExistingMember(tid, invitedUser.id) # NoRow THEN
       fail = "none" /\ Error("User is already a member of this team", tid)
     ELSE IF ExistingInvitation(invitations, email, tid) # NoRow THEN
       fail = "none" /\ Error("An invitation has already been sent to this email", tid)
     ELSE IF fail = "insert" \/ ~CanInsertInvitation(tid, caller) THEN
       fail \in {"none", "insert"} /\ Error("Failed to send invitation.", tid)
     ELSE
       /\ nextInvitationId <= MaxInvitations
       /\ logs1 # activity_logs => nextLogId <= MaxLogs
       /\ invitations' = InsertInvitation(invitations, row)
       /\ nextInvitationId' = nextInvitationId + 1
       /\ activity_logs' = logs1
       /\ nextLogId' = IF logs1 = activity_logs THEN nextLogId ELSE nextLogId + 1
       /\ ret' = AfterLog(Logged(Ret("inviteTeamMember", "success",
                                     "Invitation sent successfully", tid, {}), 1),
                          fail = "log")
       /\ UNCHANGED <<authUsers, users, teams, team_members,
                      nextUserId, nextTeamId, nextMemberId>>

\* inviteTeamMember as the two remote phases that overlap when calls are
\* concurrent: its reads (lines 876-929) and its insert (lines 931-952)

\* every check of inviteTeamMember before its insert lets the call through
InviteChecksPass(caller, email, role) ==
  /\ IsEmail(email) /\ role \in InviteRoles
  /\ caller # NoUser
  /\ MemberOf(caller) # NoRow
  /\ ~(FindUserByEmail(email) # NoRow
        /\ ExistingMember(MemberOf(caller).team_id, FindUserByEmail(email).id) # NoRow)
  /\ ExistingInvitation(invitations, email, MemberOf(caller).team_id) = NoRow

\* the reads of a call: it returns its error, or goes on to its insert with
\* the team id it has read
InviteCheck(caller, email, role) ==
  IF InviteChecksPass(caller, email, role) THEN
    /\ Cardinality(pendingInvite) < MaxInvitations
    /\ pendingInvite' = pendingInvite \cup
         {[no |-> CHOOSE n \in 1 .. MaxInvitations : \A c \in pendingInvite : c.no # n,
           caller |-> caller, team_id |-> MemberOf(caller).team_id,
           email |-> email, role |-> role]}
    /\ UNCHANGED <<tables, counters, pendingCreateTeam, ret>>
  ELSE
    /\ InviteTeamMember(caller, email, role, "none")
    /\ UNCHANGED pendingInvite

\* the insert of a call that passed its checks, the log and the response
InviteInsert(call, fail) ==
  LET row == [id |-> nextInvitationId, team_id |-> call.team_id, email |-> call.email,
              role |-> call.role, invited_by |-> call.caller, status |-> "pending"]
      logs1 == LogActivity(activity_logs, nextLogId, users, teams, call.caller,
                           call.team_id, "INVITE_TEAM_MEMBER", fail = "log")
  IN
  /\ call \in pendingInvite
  /\ pendingInvite' = pendingInvite \ {call}
  /\ UNCHANGED pendingCreateTeam
  /\ IF fail = "insert" \/ ~CanInsertInvitation(call.team_id, call.caller) THEN
       /\ fail \in {"none", "insert"}
       /\ ret' = Ret("inviteTeamMember", "error", "Failed to send invitation.",
                     call.team_id, {})
       /\ UNCHANGED <<tables, counters>>
     ELSE
       /\ nextInvitationId <= MaxInvitations
       /\ logs1 # activity_logs => nextLogId <= MaxLogs
       /\ invitations' = InsertInvitation(invitations, row)
       /\ nextInvitationId' = nextInvitationId + 1
       /\ activity_logs' = logs1
       /\ nextLogId' = IF logs1 = activity_logs THEN nextLogId ELSE nextLogId + 1
       /\ ret' = AfterLog(Logged(Ret("inviteTeamMember", "success",
                                     "Invitation sent successfully", call.team_id, {}), 1),
                          fail = "log")
       /\ UNCHANGED <<authUsers, users, teams, team_members,
                      nextUserId, nextTeamId, nextMemberId>>

\* ------------------------------------------------------ removeTeamMember
RemoveCalls == {"none", "delete", "log"}

\* mutant: the delete without its team_id filter
DeleteMemberAnyTeam(members, memberId, tid) ==
  {m \in members : m.id # memberId}

\* delete from team_members where id = memberId and team_id = the caller's team
DeleteMember(members, memberId, tid) ==
  {m \in members : ~(m.id = memberId /\ m.team_id = tid)}

RemoveTeamMember(caller, memberIdField, fail) ==
  LET memberId == ParseInt(memberIdField)
      userTeam == MemberOf(caller)
      tid == userTeam.team_id
      logs1 == LogActivity(activity_logs, nextLogId, users, teams, caller, tid,
                           "REMOVE_TEAM_MEMBER", fail = "log")
      Error(msg, team) ==
        /\ ret' = Ret("removeTeamMember", "error", msg, team, {})
        /\ UNCHANGED <<tables, counters>>
  IN
  /\ UNCHANGED pendingCreateTeam
  /\ IF memberId = NaN THEN
       /\ fail = "none"
       /\ ret' = Local(Ret("removeTeamMember", "error", "Invalid member ID.", NoTeam, {}))
       /\ UNCHANGED <<tables, counters>>
     ELSE IF caller = NoUser THEN
       fail = "none" /\ Error("User not authenticated.", NoTeam)
     ELSE IF userTeam = NoRow THEN
       fail = "none" /\ Error("User is not part of a team", NoTeam)
     ELSE IF fail = "delete" THEN
       Error("Failed to remove team member.", tid)
     ELSE
       /\ logs1 # activity_logs => nextLogId <= MaxLogs
       /\ team_members' = DeleteMember(team_members, memberId, tid)
       /\ activity_logs' = logs1
       /\ nextLogId' = IF logs1 = activity_logs THEN nextLogId ELSE nextLogId + 1
       /\ ret' = AfterLog(Logged(Ret("removeTeamMember", "success",
                                     "Team member removed successfully", tid, {memberId}), 1),
                          fail = "log")
       /\ UNCHANGED <<authUsers, users, teams, invitations,
                      nextUserId, nextTeamId, nextMemberId, nextInvitationId>>

\* ------------------------------------------------------------ createTeam
CreateTeamCalls == {"none", "team", "member"}

\* first insert of createTeam(name, userId): the team row
CreateTeamInsertTeam(caller, name, userId, fail) ==
  IF fail = "team" \/ caller = NoUser THEN
    /\ fail \in {"none", "team"}
    /\ ret' = Ret("createTeam", "throw", "Failed to create team", NoTeam, {})
    /\ UNCHANGED <<tables, counters, pendingCreateTeam>>
  ELSE
    /\ fail = "none"
    /\ nextTeamId <= MaxTeams
    /\ teams' = teams \cup {[id |-> nextTeamId, name |-> name]}
    /\ nextTeamId' = nextTeamId + 1
    /\ pendingCreateTeam' = pendingCreateTeam \cup {[user_id |-> userId, team_id |-> nextTeamId]}
    /\ ret' = ret
    /\ UNCHANGED <<authUsers, users, team_members, invitations, activity_logs,
                   nextUserId, nextMemberId, nextInvitationId, nextLogId>>

\* mutant: the team row is deleted again when the membership insert fails
AfterMemberErrorCompensate(tms, tid) == {t \in tms : t.id # tid}

\* if (memberError) throw: nothing is done about the team row inserted before
AfterMemberError(tms, tid) == tms

\* second insert of createTeam: the membership of userId with role 'owner'
CreateTeamInsertMember(call, fail) ==
  /\ call \in pendingCreateTeam
  /\ pendingCreateTeam' = pendingCreateTeam \ {call}
  /\ IF fail = "member"
        \/ ~CanInsertMember(team_members, users, teams, call.user_id, call.team_id) THEN
       /\ fail \in {"none", "member"}
       /\ ret' = Ret("createTeam", "throw", "Failed to add user to team", call.team_id, {})
       /\ teams' = AfterMemberError(teams, call.team_id)
       /\ UNCHANGED <<authUsers, users, team_members, invitations, activity_logs, counters>>
     ELSE
       /\ fail = "none"
       /\ nextMemberId <= MaxMembers
       /\ team_members' = InsertMember(team_members, nextMemberId, call.user_id,
                                       call.team_id, "owner")
       /\ nextMemberId' = nextMemberId + 1
       /\ ret' = Ret("createTeam", "value", "", call.team_id, {})
       /\ UNCHANGED <<authUsers, users, teams, invitations, activity_logs,
                      nextUserId, nextTeamId, nextInvitationId, nextLogId>>

\* ------------------------------------------------------------ deleteTeam
\* mutant: team_id declared without on delete cascade, the rows stay
CascadeTeamNone(rows, teamId) == rows

\* delete from teams where id = teamId, with the cascades of the schema
CascadeTeam(rows, teamId) == {r \in rows : r.team_id # teamId}

DeleteTeam(caller, teamId, fail) ==
  /\ UNCHANGED <<authUsers, users, counters, pendingCreateTeam>>
  /\ IF fail = "delete" THEN
       /\ ret' = Ret("deleteTeam", "throw", "Failed to delete team", teamId, {})
       /\ UNCHANGED <<teams, team_members, invitations, activity_logs>>
     ELSE IF caller = NoUser THEN
       \* no delete policy for anon: no row is visible, nothing is deleted
       /\ ret' = Ret("deleteTeam", "value", "", teamId, {})
       /\ UNCHANGED <<teams, team_members, invitations, activity_logs>>
     ELSE
       /\ teams' = {t \in teams : t.id # teamId}
       /\ team_members' = CascadeTeam(team_members, teamId)
       /\ invitations' = CascadeTeam(invitations, teamId)
       /\ activity_logs' = CascadeTeam(activity_logs, teamId)
       /\ ret' = Ret("deleteTeam", "value", "", teamId, {})

\* --------------------------------------------------------- deleteAccount
DeleteAccountCalls == {"none", "delete", "log"}
DeleteAccountForms == {"password1", "password2", "short"}

\* mutant: the sign-in attempt accepts any password
VerifyPasswordAny(identity, password) == TRUE

\* auth.signInWithPassword with the identity's email and the given password
VerifyPassword(identity, password) == identity.password = password

SoftDelete(profiles, uid) ==
  {IF u.id = uid THEN [u EXCEPT !.deleted = TRUE] ELSE u : u \in profiles}

\* mutant: the delete clears the user_id of every log entry
SetNullUserAll(logs, uid) == {[l EXCEPT !.user_id = NoUser] : l \in logs}

\* mutant: activity_logs.user_id declared on delete cascade
SetNullUserCascade(logs, uid) == {l \in logs : l.user_id # uid}

\* auth.admin.deleteUser: public.users.id references auth.users on delete
\* cascade; team_members.user_id and invitations.invited_by cascade from
\* public.users; activity_logs.user_id is set null
SetNullUser(logs, uid) ==
  {IF l.user_id = uid THEN [l EXCEPT !.user_id = NoUser] ELSE l : l \in logs}

DeleteAccount(caller, password, fail) ==
  LET identity == Single({a \in authUsers : a.id = caller})
      teamMember == MemberOf(caller)
      logs1 == IF teamMember = NoRow THEN activity_logs
               ELSE LogActivity(activity_logs, nextLogId, users, teams, caller,
                                teamMember.team_id, "DELETE_ACCOUNT", fail = "log")
      Error(msg) ==
        /\ ret' = Ret("deleteAccount", "error", msg, NoTeam, {})
        /\ UNCHANGED <<tables, counters>>
  IN
  /\ UNCHANGED pendingCreateTeam
  /\ IF ~IsPassword(password) THEN
       /\ fail = "none"
       /\ ret' = Local(Ret("deleteAccount", "error", "Invalid password format.", NoTeam, {}))
       /\ UNCHANGED <<tables, counters>>
     ELSE IF caller = NoUser THEN
       fail = "none" /\ Error("User not authenticated.")
     ELSE IF ~VerifyPassword(identity, password) THEN
       fail = "none" /\ Error("Incorrect password. Account deletion failed.")
     ELSE
       /\ logs1 # activity_logs => nextLogId <= MaxLogs
       /\ fail = "log" => teamMember # NoRow
       /\ nextLogId' = IF logs1 = activity_logs THEN nextLogId ELSE nextLogId + 1
       /\ UNCHANGED <<teams, nextUserId, nextTeamId, nextMemberId, nextInvitationId>>
       /\ IF fail = "delete" THEN
            /\ users' = SoftDelete(users, caller)
            /\ activity_logs' = logs1
            /\ ret' = Logged(Ret("deleteAccount", "error",
                                 "Failed to delete account. Please try again.", NoTeam, {}),
                             IF teamMember = NoRow THEN 0 ELSE 1)
            /\ UNCHANGED <<authUsers, team_members, invitations>>
          ELSE
            /\ authUsers' = authUsers \ {identity}
            /\ users' = {u \in users : u.id # caller}
            /\ team_members' = {m \in team_members : m.user_id # caller}
            /\ invitations' = {i \in invitations : i.invited_by # caller}
            /\ activity_logs' = SetNullUser(logs1, caller)
            /\ ret' = AfterLog(Logged(Ret("deleteAccount", "redirect", "", NoTeam, {}),
                                      IF teamMember = NoRow THEN 0 ELSE 1),
                               fail = "log")

\* ----------------------------------------------------------------- signIn
SignInCalls == {"none", "auth", "user", "log"}

\* signIn does not look at the session of the request: it opens one.  The
\* call "user" is the auth.getUser() after the sign-in: when it fails,
\* authUser is null, and the checkout branch dereferences it (authUser!.id)
SignIn(email, password, redirectTo, fail) ==
  LET identity == Single({a \in authUsers : a.email = email})
      authUser == IF fail = "user" THEN NoRow ELSE identity
      teamMember == IF authUser = NoRow THEN NoRow ELSE MemberOf(authUser.id)
      logs1 == IF teamMember = NoRow THEN activity_logs
               ELSE LogActivity(activity_logs, nextLogId, users, teams, authUser.id,
                                teamMember.team_id, "SIGN_IN", fail = "log")
      n == IF teamMember = NoRow THEN 0 ELSE 1
  IN
  /\ UNCHANGED <<authUsers, users, teams, team_members, invitations,
                 nextUserId, nextTeamId, nextMemberId, nextInvitationId, pendingCreateTeam>>
  /\ IF ~(IsEmail(email) /\ IsPassword(password)) THEN
       /\ fail = "none"
       /\ ret' = Local(Ret("signIn", "error", "Invalid email or password format.", NoTeam, {}))
       /\ UNCHANGED <<activity_logs, nextLogId>>
     ELSE IF fail = "auth" \/ identity = NoRow \/ ~VerifyPassword(identity, password) THEN
       /\ fail \in {"none", "auth"}
       /\ ret' = Ret("signIn", "error", "Invalid email or password. Please try again.",
                     NoTeam, {})
       /\ UNCHANGED <<activity_logs, nextLogId>>
     ELSE
       /\ fail = "log" => teamMember # NoRow
       /\ logs1 # activity_logs => nextLogId <= MaxLogs
       /\ activity_logs' = logs1
       /\ nextLogId' = IF logs1 = activity_logs THEN nextLogId ELSE nextLogId + 1
       /\ IF redirectTo = "checkout" THEN
            IF authUser = NoRow THEN
              ret' = Ret("signIn", "throw", "TypeError", NoTeam, {})
            ELSE
              ret' = AfterLog(Logged(Ret("signIn", "checkout", "",
                                         IF teamMember = NoRow THEN NoTeam
                                         ELSE teamMember.team_id, {}), n),
                              fail = "log")
          ELSE
            ret' = AfterLog(Logged(Ret("signIn", "redirect", "", NoTeam, {}), n),
                            fail = "log")

\* --------------------------------------------------------- updatePassword
UpdatePasswordCalls == {"none", "update", "log"}

\* auth.updateUser({ password }): the password of the session's identity
SetPassword(identities, uid, password) ==
  {IF a.id = uid THEN [a EXCEPT !.password = password] ELSE a : a \in identities}

UpdatePassword(caller, currentPassword, newPassword, confirmPassword, fail) ==
  LET teamMember == MemberOf(caller)
      logs1 == IF teamMember = NoRow THEN activity_logs
               ELSE LogActivity(activity_logs, nextLogId, users, teams, caller,
                                teamMember.team_id, "UPDATE_PASSWORD", fail = "log")
      Invalid(msg) ==
        /\ fail = "none"
        /\ ret' = Local(Ret("updatePassword", "error", msg, NoTeam, {}))
        /\ UNCHANGED <<authUsers, activity_logs, nextLogId>>
  IN
  /\ UNCHANGED <<users, teams, team_members, invitations,
                 nextUserId, nextTeamId, nextMemberId, nextInvitationId, pendingCreateTeam>>
  /\ IF ~(IsPassword(currentPassword) /\ IsPassword(newPassword)
                                      /\ IsPassword(confirmPassword)) THEN
       Invalid("Invalid input data.")
     ELSE IF currentPassword = newPassword THEN
       Invalid("New password must be different from the current password.")
     ELSE IF confirmPassword # newPassword THEN
       Invalid("New password and confirmation password do not match.")
     ELSE IF fail = "update" \/ caller = NoUser THEN
       /\ fail \in {"none", "update"}
       /\ ret' = Ret("updatePassword", "error",
                     "Failed to update password. Please try again.", NoTeam, {})
       /\ UNCHANGED <<authUsers, activity_logs, nextLogId>>
     ELSE
       /\ fail = "log" => teamMember # NoRow
       /\ logs1 # activity_logs => nextLogId <= MaxLogs
       /\ authUsers' = SetPassword(authUsers, caller, newPassword)
       /\ activity_logs' = logs1
       /\ nextLogId' = IF logs1 = activity_logs THEN nextLogId ELSE nextLogId + 1
       /\ ret' = AfterLog(Logged(Ret("updatePassword", "success",
                                     "Password updated successfully.", NoTeam, {}),
                                 IF teamMember = NoRow THEN 0 ELSE 1),
                          fail = "log")

\* ---------------------------------------------------------- updateAccount
UpdateAccountCalls == {"none", "update", "log"}

\* z.string().min(1)
IsName(name) == Len(name) >= 1

\* update users set name where id = the caller's id
SetName(profiles, uid, name) ==
  {IF u.id = uid THEN [u EXCEPT !.name = name] ELSE u : u \in profiles}

UpdateAccount(caller, name, fail) ==
  LET teamMember == MemberOf(caller)
      logs1 == IF teamMember = NoRow THEN activity_logs
               ELSE LogActivity(activity_logs, nextLogId, SetName(users, caller, name),
                                teams, caller, teamMember.team_id, "UPDATE_ACCOUNT",
                                fail = "log")
  IN
  /\ UNCHANGED <<authUsers, teams, team_members, invitations,
                 nextUserId, nextTeamId, nextMemberId, nextInvitationId, pendingCreateTeam>>
  /\ IF ~IsName(name) THEN
       /\ fail = "none"
       /\ ret' = Local(Ret("updateAccount", "error", "Invalid name format.", NoTeam, {}))
       /\ UNCHANGED <<users, activity_logs, nextLogId>>
     ELSE IF caller = NoUser THEN
       /\ fail = "none"
       /\ ret' = Ret("updateAccount", "error", "User not authenticated.", NoTeam, {})
       /\ UNCHANGED <<users, activity_logs, nextLogId>>
     ELSE IF fail = "update" THEN
       /\ ret' = Ret("updateAccount", "error",
                     "Failed to update account. Please try again.", NoTeam, {})
       /\ UNCHANGED <<users, activity_logs, nextLogId>>
     ELSE
       /\ fail = "log" => teamMember # NoRow
       /\ logs1 # activity_logs => nextLogId <= MaxLogs
       /\ users' = SetName(users, caller, name)
       /\ activity_logs' = logs1
       /\ nextLogId' = IF logs1 = activity_logs THEN nextLogId ELSE nextLogId + 1
       /\ ret' = AfterLog(Logged(Ret("updateAccount", "success",
                                     "Account updated successfully.", NoTeam, {}),
                                 IF teamMember = NoRow THEN 0 ELSE 1),
                          fail = "log")

\* ------------------------------------------- RPCs of the invitation system
\* The functions of the enhance_invitation_system migration; the rollback
\* migration drops them, so they are served by SpecRpc only.

\* accept_invitation(invitation_id, user_id): one transaction; any exception
\* (foreign key, unique(user_id, team_id), row-level security) returns false.
\* ret.msg names the exception the handler swallowed.
AcceptInvitation(caller, invitation_id, user_id) ==
  LET invite_record == Single({i \in invitations :
                                 i.id = invitation_id /\ i.status = "pending"})
      tid == invite_record.team_id
      False(exception) ==
        /\ ret' = Ret("accept_invitation", "false", exception, NoTeam, {})
        /\ UNCHANGED <<tables, counters>>
  IN
  /\ UNCHANGED pendingCreateTeam
  /\ IF invite_record = NoRow THEN False("not found")
     ELSE IF caller = NoUser THEN False("insufficient_privilege")
     ELSE IF UniqueViolation(team_members, user_id, tid) THEN
       False("unique_violation")
     ELSE IF ~CanInsertMember(team_members, users, teams, user_id, tid)
             \/ ~CanLog(users, teams, caller, tid) THEN
       False("foreign_key_violation")
     ELSE
       /\ nextMemberId <= MaxMembers
       /\ nextLogId <= MaxLogs
       /\ team_members' = InsertMember(team_members, nextMemberId, user_id, tid,
                                       invite_record.role)
       /\ nextMemberId' = nextMemberId + 1
       /\ invitations' = UpdateInvitationStatus(invitations, invitation_id, "accepted")
       /\ activity_logs' = LogActivity(activity_logs, nextLogId, users, teams, caller,
                                       tid, "ACCEPT_INVITATION", FALSE)
       /\ nextLogId' = nextLogId + 1
       /\ ret' = Logged(Ret("accept_invitation", "true", "", tid, {}), 1)
       /\ UNCHANGED <<authUsers, users, teams, nextUserId, nextTeamId, nextInvitationId>>

\* request_to_join_team(team_invite_code, user_email, requesting_user_id); the
\* invite code of a team is modelled by the team's id
RequestToJoinTeam(caller, team_invite_code, user_email, requesting_user_id) ==
  LET team_record == Single({t \in teams : t.id = team_invite_code})
      tid == team_record.id
      row == [id |-> nextInvitationId, team_id |-> tid, email |-> user_email,
              role |-> "member", invited_by |-> requesting_user_id, status |-> "requested"]
      Result(result, msg) ==
        /\ ret' = Ret("request_to_join_team", result, msg, NoTeam, {})
        /\ UNCHANGED <<tables, counters>>
  IN
  /\ UNCHANGED pendingCreateTeam
  /\ IF team_record = NoRow THEN Result("null", "not found")
     ELSE IF \E m \in team_members : m.team_id = tid /\ m.user_id = requesting_user_id THEN
       Result("null", "already a member")
     ELSE IF \E i \in invitations : /\ i.team_id = tid /\ i.email = user_email
                                    /\ i.status \in {"pending", "requested"} THEN
       Result("null", "already invited")
     ELSE IF caller = NoUser THEN
       Result("throw", "insufficient_privilege")
     ELSE IF ~CanInsertInvitation(tid, requesting_user_id)
             \/ ~CanLog(users, teams, caller, tid) THEN
       Result("throw", "foreign_key_violation")
     ELSE
       /\ nextInvitationId <= MaxInvitations
       /\ nextLogId <= MaxLogs
       /\ invitations' = InsertInvitation(invitations, row)
       /\ nextInvitationId' = nextInvitationId + 1
       /\ activity_logs' = LogActivity(activity_logs, nextLogId, users, teams, caller,
                                       tid, "REQUEST_TO_JOIN", FALSE)
       /\ nextLogId' = nextLogId + 1
       /\ ret' = Logged(Ret("request_to_join_team", "value", "", tid, {}), 1)
       /\ UNCHANGED <<authUsers, users, teams, team_members,
                      nextUserId, nextTeamId, nextMemberId>>

\* --------------------------------------------------------------- queries
\* users_select_own: a caller sees the profile row whose id is its own
VisibleProfiles(caller) == {u \in users : u.id = caller}

\* team_members joined with users!inner, as the caller sees them
VisibleMembers(caller, tid) ==
  IF caller = NoUser THEN {}
  ELSE {m \in team_members :
          m.team_id = tid /\ \E u \in VisibleProfiles(caller) : u.id = m.user_id}

\* getUser of lib/db/queries.ts: the caller's profile unless soft-deleted
GetUser(caller) ==
  IF caller = NoUser THEN NoRow
  ELSE Single({u \in VisibleProfiles(caller) : ~u.deleted})

\* getUser() of lib/db/queries.ts as a request
GetUserProfile(caller) ==
  /\ UNCHANGED <<tables, counters, pendingCreateTeam>>
  /\ ret' = Ret("getUser", IF GetUser(caller) = NoRow THEN "null" ELSE "value", "",
                NoTeam, {})

\* getUser() of lib/auth/supabase.ts: the same lookup without the deleted_at filter
AuthGetUser(caller) ==
  /\ UNCHANGED <<tables, counters, pendingCreateTeam>>
  /\ ret' = Ret("auth.getUser",
                IF caller = NoUser \/ Single(VisibleProfiles(caller)) = NoRow
                THEN "null" ELSE "value", "", NoTeam, {})

GetTeamForUser(caller) ==
  LET user == GetUser(caller)
      teamMemberData ==
        Single({m \in team_members :
                  m.user_id = user.id /\ VisibleMembers(caller, m.team_id) # {}})
  IN
  /\ UNCHANGED <<tables, counters, pendingCreateTeam>>
  /\ IF user = NoRow \/ teamMemberData = NoRow THEN
       ret' = Ret("getTeamForUser", "null", "", NoTeam, {})
     ELSE
       ret' = Ret("getTeamForUser", "value", "", teamMemberData.team_id,
                  Ids(VisibleMembers(caller, teamMemberData.team_id)))

GetTeamMembers(caller, teamId) ==
  /\ UNCHANGED <<tables, counters, pendingCreateTeam>>
  /\ ret' = Ret("getTeamMembers", "value", "", teamId, Ids(VisibleMembers(caller, teamId)))

\* ------------------------------------------------ row level security
\* the role a request runs as
RoleOf(caller) == IF caller = NoUser THEN "anon" ELSE "authenticated"

\* the policies of s that apply to a cmd on tbl by the caller
Applicable(s, tbl, cmd, caller) ==
  {p \in s.policies : p.tbl = tbl /\ p.cmd = cmd /\ RoleOf(caller) \in p.to}

\* the tables the predicate of a policy queries
Reads(p) ==
  UNION {IF d.kind = "member" THEN {"team_members"}
         ELSE IF d.kind = "auth.users" THEN {"auth.users"} ELSE {} : d \in p.pred}

\* the tables the select policies on tbl make a query of tbl read
SelectReads(s, tbl, caller) == UNION {Reads(p) : p \in Applicable(s, tbl, "select", caller)}

RECURSIVE Expand(_, _, _)
\* the tables a query of the tables T ends up reading
Expand(s, T, caller) ==
  LET N == T \cup UNION {SelectReads(s, t, caller) : t \in T}
  IN IF N = T THEN T ELSE Expand(s, N, caller)

\* infinite recursion detected in policy for relation: expanding the policies
\* of the query reaches a table whose own select policies lead back to it
InfiniteRecursion(s, tbl, cmd, caller) ==
  \E t \in Expand(s, UNION {Reads(p) : p \in Applicable(s, tbl, cmd, caller)}, caller) :
    t \in Expand(s, SelectReads(s, t, caller), caller)

\* a disjunct that queries no table, on a row
HoldsDirect(d, caller, row) ==
  CASE d.kind = "true" -> TRUE
    [] d.kind = "uid" -> caller # NoUser /\ row[d.col] = caller
    [] d.kind \in {"email", "auth.users"} ->
         \E a \in authUsers : a.id = caller /\ a.email = row.email
    [] OTHER -> FALSE

\* the rows of team_members a subquery of a policy sees (there is none when
\* the select policies of team_members query team_members themselves: the
\* query fails with the recursion error instead)
MembersSeen(s, caller) ==
  {m \in team_members :
     \/ "team_members" \notin s.rls
     \/ \E p \in Applicable(s, "team_members", "select", caller) :
          \E d \in p.pred : HoldsDirect(d, caller, m)}

\* mutant: every predicate holds
HoldsAny(s, d, caller, row) == TRUE

Holds(s, d, caller, row) ==
  IF d.kind = "member"
  THEN \E m \in MembersSeen(s, caller) :
         m.user_id = caller /\ m.role \in d.roles /\ m.team_id = row[d.col]
  ELSE HoldsDirect(d, caller, row)

\* row level security: with RLS enabled on tbl a row passes when the
\* predicate of some applicable (permissive) policy holds on it
Allowed(s, tbl, cmd, caller, row) ==
  \/ tbl \notin s.rls
  \/ \E p \in Applicable(s, tbl, cmd, caller) : \E d \in p.pred : Holds(s, d, caller, row)

Tables == {"users", "teams", "team_members", "activity_logs", "invitations"}

Rows(tbl) ==
  CASE tbl = "users" -> users
    [] tbl = "teams" -> teams
    [] tbl = "team_members" -> team_members
    [] tbl = "activity_logs" -> activity_logs
    [] OTHER -> invitations

\* supabase.from(tbl).select() with the caller's session: the ids of the rows
\* the select policies let through.  Whether the roles of the API may read
\* auth.users is a grant outside the migrations: a policy that queries it
\* may fail the request.
Select(caller, tbl) ==
  /\ schema.rls # {}
  /\ UNCHANGED <<tables, counters, pendingCreateTeam>>
  /\ IF InfiniteRecursion(schema, tbl, "select", caller) THEN
       ret' = Ret("select", "error", "infinite recursion detected in policy", NoTeam, {})
     ELSE
       \E denied \in {FALSE, "auth.users" \in SelectReads(schema, tbl, caller)} :
         ret' = IF denied
                THEN Ret("select", "error", "permission denied for table users", NoTeam, {})
                ELSE Ret("select", "value", tbl, NoTeam,
                         Ids({r \in Rows(tbl) : Allowed(schema, tbl, "select", caller, r)}))

\* supabase.from('users').insert({id}) with the caller's session
InsertProfile(caller, id) ==
  LET row == [id |-> id, role |-> "member", name |-> "", deleted |-> FALSE]
  IN
  /\ schema.rls # {}
  /\ UNCHANGED <<authUsers, teams, team_members, invitations, activity_logs,
                 counters, pendingCreateTeam>>
  /\ IF /\ Allowed(schema, "users", "insert", caller, row)
        /\ id \in Ids(authUsers)
        /\ id \notin Ids(users)
     THEN /\ users' = users \cup {row}
          /\ ret' = Ret("insert", "value", "users", NoTeam, {id})
     ELSE /\ users' = users
          /\ ret' = Ret("insert", "error", "users", NoTeam, {})

\* supabase.from('users').update({name}).eq('id', id) with the caller's
\* session: the rows the update policies let through are updated
UpdateProfile(caller, id, name) ==
  LET hit == {u \in users : u.id = id /\ Allowed(schema, "users", "update", caller, u)}
  IN
  /\ schema.rls # {}
  /\ UNCHANGED <<authUsers, teams, team_members, invitations, activity_logs,
                 counters, pendingCreateTeam>>
  /\ users' = {IF u \in hit THEN [u EXCEPT !.name = name] ELSE u : u \in users}
  /\ ret' = Ret("update", "value", "users", NoTeam, Ids(hit))

\* supabase.from('users').delete().eq('id', id) with the caller's session:
\* the rows the delete policies let through are deleted, and what references
\* them cascades
DeleteProfile(caller, id) ==
  LET hit == Ids({u \in users : u.id = id /\ Allowed(schema, "users", "delete", caller, u)})
  IN
  /\ schema.rls # {}
  /\ UNCHANGED <<authUsers, teams, counters, pendingCreateTeam>>
  /\ users' = {u \in users : u.id \notin hit}
  /\ team_members' = {m \in team_members : m.user_id \notin hit}
  /\ invitations' = {i \in invitations : i.invited_by \notin hit}
  /\ activity_logs' = {IF l.user_id \in hit THEN [l EXCEPT !.user_id = NoUser] ELSE l :
                         l \in activity_logs}
  /\ ret' = Ret("delete", "value", "users", NoTeam, hit)

\* supabase db push: the next migration is applied
ApplyMigration ==
  /\ applied < Len(MigrationNames)
  /\ applied' = applied + 1
  /\ UNCHANGED <<tables, counters, pendingCreateTeam, ret>>

\* ------------------------------------------------------------------ Next
Callers == {NoUser} \cup Ids(authUsers)
UserIds == 1 .. MaxUsers
TeamIds == 1 .. MaxTeams
InvitationIds == 1 .. MaxInvitations

\* a request is served once the previous response is delivered
Serve ==
  \/ \E caller \in Callers, form \in SignUpForms, fail \in SignUpCalls :
       SignUp(caller, form.email, form.password, form.inviteId, fail)
  \/ \E caller \in Callers, form \in InviteForms, fail \in InviteCalls :
       InviteTeamMember(caller, form.email, form.role, fail)
  \/ \E caller \in Callers, memberId \in MemberIdInputs, fail \in RemoveCalls :
       RemoveTeamMember(caller, memberId, fail)
  \/ \E caller \in Callers, name \in TeamNameInputs, userId \in UserIds,
        fail \in CreateTeamCalls :
       CreateTeamInsertTeam(caller, name, userId, fail)
  \/ \E call \in pendingCreateTeam, fail \in CreateTeamCalls :
       CreateTeamInsertMember(call, fail)
  \/ \E caller \in Callers, teamId \in TeamIds, fail \in {"none", "delete"} :
       DeleteTeam(caller, teamId, fail)
  \/ \E caller \in Callers, password \in DeleteAccountForms, fail \in DeleteAccountCalls :
       DeleteAccount(caller, password, fail)
  \/ \E caller \in Callers : GetTeamForUser(caller)
  \/ \E caller \in Callers, teamId \in TeamIds : GetTeamMembers(caller, teamId)

\* the response in flight reaches the client
Respond ==
  /\ ret # Idle
  /\ ret' = Idle
  /\ UNCHANGED <<tables, counters, pendingCreateTeam, pendingInvite, applied>>

\* the handlers of Serve leave the schema alone, and run their steps together
Next ==
  \/ ret = Idle /\ Serve /\ UNCHANGED <<pendingInvite, applied>>
  \/ Respond

Spec == Init /\ [][Next]_vars

\* the database between the enhance_invitation_system migration and its
\* rollback: the two functions can be called as well
ServeRpc ==
  \/ /\ "accept_invitation(bigint, uuid)" \in schema.functions
     /\ \E caller \in Callers, invitation_id \in InvitationIds, user_id \in UserIds :
          AcceptInvitation(caller, invitation_id, user_id)
  \/ /\ "request_to_join_team(uuid, text, uuid)" \in schema.functions
     /\ \E caller \in Callers, code \in TeamIds, email \in ValidEmails, user_id \in UserIds :
          RequestToJoinTeam(caller, code, email, user_id)

NextRpc ==
  \/ ret = Idle /\ Serve /\ UNCHANGED <<pendingInvite, applied>>
  \/ ret = Idle /\ ServeRpc /\ UNCHANGED <<pendingInvite, applied>>
  \/ Respond

InitRpc == InitData /\ applied = Len(MigrationNames) - 1

SpecRpc == InitRpc /\ [][NextRpc]_vars

\* the mutation handlers (the server actions of lib/setup/supabase.ts) and the
\* resolution of the current profile, without the team queries of lib/db
ServeHandlers ==
  \/ \E caller \in Callers, form \in SignUpForms, fail \in SignUpCalls :
       SignUp(caller, form.email, form.password, form.inviteId, fail)
  \/ \E form \in SignInForms, fail \in SignInCalls :
       SignIn(form.email, form.password, form.redirect, fail)
  \/ \E caller \in Callers, form \in UpdatePasswordForms, fail \in UpdatePasswordCalls :
       UpdatePassword(caller, form.currentPassword, form.newPassword,
                      form.confirmPassword, fail)
  \/ \E caller \in Callers, name \in NameInputs, fail \in UpdateAccountCalls :
       UpdateAccount(caller, name, fail)
  \/ \E caller \in Callers, password \in DeleteAccountForms, fail \in DeleteAccountCalls :
       DeleteAccount(caller, password, fail)
  \/ \E caller \in Callers, memberId \in MemberIdInputs, fail \in RemoveCalls :
       RemoveTeamMember(caller, memberId, fail)
  \/ \E caller \in Callers, form \in InviteForms, fail \in InviteCalls :
       InviteTeamMember(caller, form.email, form.role, fail)
  \/ \E caller \in Callers : GetUserProfile(caller)
  \/ \E caller \in Callers : AuthGetUser(caller)

NextHandlers ==
  \/ ret = Idle /\ ServeHandlers /\ UNCHANGED <<pendingInvite, applied>>
  \/ Respond

SpecHandlers == Init /\ [][NextHandlers]_vars

\* the adopted rules are in force: the policies of the complete fix
Adopted(s) == CompleteRlsFixPolicies \subseteq s.policies

\* the insert into teams with its .select() fails for the caller: there is no
\* table yet, no insert policy lets the row through, or the select policies
\* that insert ... returning runs meet the recursion
TeamInsertFails(s, caller) ==
  \/ "teams.id" \notin s.columns
  \/ ~Allowed(s, "teams", "insert", caller, [id |-> nextTeamId])
  \/ InfiniteRecursion(s, "teams", "select", caller)

\* the migrations applied one after the other to an empty database, requests
\* on the tables under the policies in force, and the handlers that create
\* and delete identities and invitations: before the adopted rules are in
\* force a signUp creates its identity and fails at its team insert
ServeMigrations ==
  \/ /\ TeamInsertFails(schema, nextUserId)
     /\ \E form \in SignUpForms :
          form.inviteId = <<>> /\ SignUp(NoUser, form.email, form.password, <<>>, "team")
  \/ \E caller \in Callers, tbl \in Tables : Select(caller, tbl)
  \/ \E caller \in Callers, id \in UserIds : InsertProfile(caller, id)
  \/ \E caller \in Callers, id \in UserIds, name \in NameInputs : UpdateProfile(caller, id, name)
  \/ \E caller \in Callers, id \in UserIds : DeleteProfile(caller, id)
  \/ /\ Adopted(schema)
     /\ \E caller \in Callers, form \in SignUpForms, fail \in SignUpCalls :
          SignUp(caller, form.email, form.password, form.inviteId, fail)
  \/ /\ Adopted(schema)
     /\ \E caller \in Callers, form \in InviteForms, fail \in InviteCalls :
          InviteTeamMember(caller, form.email, form.role, fail)
  \/ /\ Adopted(schema)
     /\ \E caller \in Callers, password \in DeleteAccountForms, fail \in DeleteAccountCalls :
          DeleteAccount(caller, password, fail)

NextMigrations ==
  \/ ret = Idle /\ ApplyMigration /\ UNCHANGED pendingInvite
  \/ ret = Idle /\ ServeMigrations /\ UNCHANGED <<pendingInvite, applied>>
  \/ Respond

InitMigrations == InitData /\ applied = 0

SpecMigrations == InitMigrations /\ [][NextMigrations]_vars

\* concurrent inviteTeamMember calls: the reads of a call and its insert are
\* separate requests to the store, and other calls run between them
ServeConcurrent ==
  \/ /\ \E caller \in Callers, form \in SignUpForms, fail \in SignUpCalls :
          SignUp(caller, form.email, form.password, form.inviteId, fail)
     /\ UNCHANGED pendingInvite
  \/ \E caller \in Callers, form \in InviteForms : InviteCheck(caller, form.email, form.role)
  \/ \E call \in pendingInvite, fail \in InviteCalls : InviteInsert(call, fail)
  \/ /\ \E caller \in Callers, memberId \in MemberIdInputs, fail \in RemoveCalls :
          RemoveTeamMember(caller, memberId, fail)
     /\ UNCHANGED pendingInvite

NextConcurrent ==
  \/ ret = Idle /\ ServeConcurrent /\ UNCHANGED applied
  \/ Respond

SpecConcurrent == Init /\ [][NextConcurrent]_vars

\* ================================================================ claims
OwnRows(caller) == {m \in team_members : m.user_id = caller}
ValidInviteForms == {f \in InviteForms : f.email \in ValidEmails /\ f.role = "member"}
IdentityOf(email) == {a \in authUsers : a.email = email}

\* C1: in every reachable state no two rows of team_members share the same
\* (user_id, team_id) pair, and an insert of a pair that is already there
\* (accept_invitation for a user who is a member of the invitation's team)
\* fails and leaves team_members unchanged.
C1_UniqueMembership ==
  /\ [](\A m1, m2 \in team_members :
          (m1.user_id = m2.user_id /\ m1.team_id = m2.team_id) => m1 = m2)
  /\ [][ret'.op = "accept_invitation" =>
          \A caller \in Callers, invitation_id \in InvitationIds, user_id \in UserIds :
            (/\ AcceptInvitation(caller, invitation_id, user_id)
             /\ \E i \in invitations, m \in team_members :
                  /\ i.id = invitation_id
                  /\ m.user_id = user_id /\ m.team_id = i.team_id)
            => (ret'.result = "false" /\ team_members' = team_members)]_vars

C1_Witness ==
  /\ ret.op = "accept_invitation"
  /\ ret.msg = "unique_violation"
  /\ team_members # {}

\* C2: removeTeamMember leaves every membership row unchanged whose team is
\* not the team of the caller's own membership row.
C2_RemoveStaysInTeam ==
  [][ret'.op = "removeTeamMember" =>
      \A caller \in Callers, memberId \in MemberIdInputs, fail \in RemoveCalls :
        RemoveTeamMember(caller, memberId, fail) =>
          \A m \in team_members :
            (\A own \in OwnRows(caller) :
               Cardinality(OwnRows(caller)) = 1 => own.team_id # m.team_id)
            => m \in team_members']_vars

\* a removal succeeded that addressed the id of another team's membership row
C2_Witness ==
  /\ ret.op = "removeTeamMember"
  /\ ret.result = "success"
  /\ \E m \in team_members : m.id \in ret.rows /\ m.team_id # ret.team

\* C3: listing, removing and inviting are scoped by the team id of the
\* caller's own membership row, never by a team id the client supplies.
C3_ScopedByOwnTeam ==
  [][ret'.op \in {"getTeamMembers", "removeTeamMember", "inviteTeamMember"} =>
      \A caller \in Callers :
        (/\ \/ \E teamId \in TeamIds : GetTeamMembers(caller, teamId)
            \/ \E memberId \in MemberIdInputs, fail \in RemoveCalls :
                 RemoveTeamMember(caller, memberId, fail)
            \/ \E form \in InviteForms, fail \in InviteCalls :
                 InviteTeamMember(caller, form.email, form.role, fail)
         /\ Cardinality(OwnRows(caller)) = 1
         /\ ret'.team # NoTeam)
        => \E own \in OwnRows(caller) : ret'.team = own.team_id]_vars

\* C4: a signUp that fails with 'Invalid or expired invitation.' has created
\* no identity, profile, team or membership.
C4_InvalidInvitationCreatesNothing ==
  [][(ret'.op = "signUp" /\ ret'.msg = "Invalid or expired invitation.") =>
      (/\ authUsers' = authUsers /\ users' = users
       /\ teams' = teams /\ team_members' = team_members)]_vars

\* C5: a successful signUp without an invitation id adds exactly one team, named
\* "<email>'s Team", exactly one profile, for the new identity, and exactly one
\* membership, of that identity in that team with role 'owner'.
C5_SignUpCreatesOwnTeam ==
  [][(ret'.op = "signUp" /\ ret'.result = "redirect") =>
      \A caller \in Callers, form \in SignUpForms, fail \in SignUpCalls :
        (/\ form.inviteId \in {<<>>, Absent}
         /\ SignUp(caller, form.email, form.password, form.inviteId, fail)
         /\ ret'.result = "redirect")
        => \E a \in authUsers', t \in teams', m \in team_members', u \in users' :
             /\ authUsers' = authUsers \cup {a} /\ a \notin authUsers
             /\ a.email = form.email
             /\ teams' = teams \cup {t} /\ t \notin teams
             /\ form.email = "a@x.com" => t.name = "a@x.com's Team"
             /\ form.email = "b@x.com" => t.name = "b@x.com's Team"
             /\ users' = users \cup {u} /\ u \notin users /\ u.id = a.id
             /\ team_members' = team_members \cup {m} /\ m \notin team_members
             /\ m.user_id = a.id /\ m.team_id = t.id /\ m.role = "owner"]_vars

C5_Witness ==
  /\ ret.op = "signUp"
  /\ ret.result = "redirect"
  /\ invitations = {}
  /\ \E t \in teams, m \in team_members :
       t.id = ret.team /\ t.name = "a@x.com's Team" /\ m.team_id = t.id /\ m.role = "owner"

\* C6: a successful signUp with the id of a pending invitation addressed to the
\* submitted email adds the new identity to the invitation's team with the
\* invitation's role, sets that invitation to 'accepted' and adds no team.
C6_SignUpWithInvitation ==
  [][(ret'.op = "signUp" /\ ret'.result = "redirect") =>
      \A caller \in Callers, form \in SignUpForms, fail \in SignUpCalls :
        (/\ form.inviteId \notin {<<>>, Absent}
         /\ SignUp(caller, form.email, form.password, form.inviteId, fail)
         /\ ret'.result = "redirect")
        => \E i \in invitations, a \in authUsers', m \in team_members' :
             /\ i.status = "pending" /\ i.email = form.email
             /\ form.inviteId = <<"1">> => i.id = 1
             /\ invitations' = (invitations \ {i}) \cup {[i EXCEPT !.status = "accepted"]}
             /\ a \notin authUsers /\ a.email = form.email
             /\ team_members' = team_members \cup {m} /\ m \notin team_members
             /\ m.user_id = a.id /\ m.team_id = i.team_id /\ m.role = i.role
             /\ teams' = teams]_vars

C6_Witness ==
  /\ ret.op = "signUp"
  /\ ret.result = "redirect"
  /\ \E i \in invitations, a \in authUsers, m \in team_members :
       /\ i.status = "accepted" /\ i.team_id = ret.team
       /\ a.email = i.email
       /\ m.user_id = a.id /\ m.team_id = i.team_id /\ m.role = i.role

\* C7: an invitation that is accepted, cancelled or expired keeps that status
\* in every later state in which it exists.
C7_StatusOneWay ==
  [][\A i \in invitations, j \in invitations' :
       (i.status \in {"accepted", "cancelled", "expired"} /\ j.id = i.id)
       => j.status = i.status]_vars

C7_Witness ==
  /\ \E i \in invitations : i.status = "accepted"
  /\ \E i \in invitations : i.status \in {"pending", "requested"}

\* C8: inviteTeamMember for an email that has a pending invitation to the
\* caller's team returns 'An invitation has already been sent to this email',
\* inserts no invitation and records no activity.
C8_SecondInviteRejected ==
  [][ret'.op = "inviteTeamMember" =>
      \A caller \in Callers, form \in ValidInviteForms, fail \in InviteCalls :
        (/\ InviteTeamMember(caller, form.email, form.role, fail)
         /\ Cardinality(OwnRows(caller)) = 1
         /\ \E own \in OwnRows(caller), i \in invitations :
              i.team_id = own.team_id /\ i.email = form.email /\ i.status = "pending")
        => (/\ ret'.result = "error"
            /\ ret'.msg = "An invitation has already been sent to this email"
            /\ invitations' = invitations
            /\ activity_logs' = activity_logs)]_vars

C8_Witness ==
  /\ ret.op = "inviteTeamMember"
  /\ ret.msg = "An invitation has already been sent to this email"
  /\ \E i \in invitations : i.team_id = ret.team /\ i.status = "pending"

\* C9: with every store call succeeding, inviteTeamMember by a member of a team
\* returns an error and inserts nothing when the identity that owns the email
\* is a member of that team; otherwise, when the email has no pending
\* invitation to that team, it inserts exactly one invitation, pending, for
\* that team and email.
C9_InviteRejectsMembers ==
  [][ret'.op = "inviteTeamMember" =>
      \A caller \in Callers, form \in ValidInviteForms, fail \in {"none", "log"} :
        (/\ InviteTeamMember(caller, form.email, form.role, fail)
         /\ Cardinality(OwnRows(caller)) = 1)
        => \A own \in OwnRows(caller) :
             IF \E a \in IdentityOf(form.email), m \in team_members :
                  m.user_id = a.id /\ m.team_id = own.team_id
             THEN ret'.result = "error" /\ invitations' = invitations
             ELSE (~ \E i \in invitations : /\ i.team_id = own.team_id
                                            /\ i.email = form.email
                                            /\ i.status = "pending")
                  => \E row \in invitations' :
                       /\ row \notin invitations
                       /\ invitations' = invitations \cup {row}
                       /\ row.status = "pending"
                       /\ row.team_id = own.team_id
                       /\ row.email = form.email]_vars

C9_Witness ==
  /\ ret.op = "inviteTeamMember"
  /\ ret.msg = "User is already a member of this team"
  /\ \E a \in authUsers, m \in team_members : m.user_id = a.id /\ m.team_id = ret.team

\* C10: for a caller with an identity and no membership row, getTeamForUser
\* returns null, and inviteTeamMember and removeTeamMember return an error
\* message and change no row.
C10_NoMembership ==
  [][ret'.op \in {"getTeamForUser", "inviteTeamMember", "removeTeamMember"} =>
      \A caller \in Callers \ {NoUser} :
        OwnRows(caller) = {} =>
          /\ GetTeamForUser(caller) => ret'.result = "null"
          /\ \A form \in InviteForms, fail \in InviteCalls :
               InviteTeamMember(caller, form.email, form.role, fail) =>
                 (ret'.result = "error" /\ ret'.msg # "" /\ UNCHANGED tables)
          /\ \A memberId \in MemberIdInputs, fail \in RemoveCalls :
               RemoveTeamMember(caller, memberId, fail) =>
                 (ret'.result = "error" /\ ret'.msg # "" /\ UNCHANGED tables)]_vars

C10_Witness ==
  /\ ret.op \in {"inviteTeamMember", "removeTeamMember"}
  /\ ret.msg = "User is not part of a team"
  /\ \E a \in authUsers : OwnRows(a.id) = {}
  /\ team_members # {}

\* C11: a deleteAccount call whose password is not the password of the
\* caller's identity returns an error and has no effect: no profile is
\* soft-deleted, no identity is deleted, log_activity is not called.
C11_VerifyBeforeDelete ==
  [][ret'.op = "deleteAccount" =>
      \A caller \in Callers \ {NoUser}, password \in DeleteAccountForms,
         fail \in DeleteAccountCalls :
        (/\ DeleteAccount(caller, password, fail)
         /\ \A a \in authUsers : a.id = caller => a.password # password)
        => (ret'.result = "error" /\ ret'.logs = 0 /\ UNCHANGED tables)]_vars

\* the verification refused a caller who has a profile and a team to log in
C11_Witness ==
  /\ ret.op = "deleteAccount"
  /\ ret.msg = "Incorrect password. Account deletion failed."
  /\ authUsers # {}
  /\ \A a \in authUsers : OwnRows(a.id) # {}

\* C12: after a deleteAccount call that succeeds, no identity, no profile and
\* no membership of the caller exists, and every log entry of the caller is
\* still there with its user_id null.
C12_DeleteAccountCascade ==
  [][(ret'.op = "deleteAccount" /\ ret'.result = "redirect") =>
      \A caller \in Callers, password \in DeleteAccountForms, fail \in DeleteAccountCalls :
        DeleteAccount(caller, password, fail) =>
          /\ \A a \in authUsers' : a.id # caller
          /\ \A u \in users' : u.id # caller
          /\ \A m \in team_members' : m.user_id # caller
          /\ \A l \in activity_logs' : l.user_id # caller
          /\ \A l \in activity_logs :
               l.user_id = caller => [l EXCEPT !.user_id = NoUser] \in activity_logs'
          /\ Cardinality(activity_logs') >= Cardinality(activity_logs)]_vars

C12_Witness ==
  /\ ret.op = "deleteAccount"
  /\ ret.result = "redirect"
  /\ \E l \in activity_logs : l.user_id = NoUser

\* C13: in every reachable state every membership row references an existing
\* profile that is not soft-deleted, and an existing team.
C13_MembershipReferences ==
  \A m \in team_members :
    /\ \E u \in users : u.id = m.user_id /\ ~u.deleted
    /\ \E t \in teams : t.id = m.team_id

\* C14: a deleteTeam call that deletes the team removes exactly the
\* memberships, invitations and log entries of that team, and leaves the rows
\* of every other team, the profiles and the identities unchanged.
C14_DeleteTeamCascade ==
  [][(ret'.op = "deleteTeam" /\ ret'.result = "value") =>
      \A caller \in Callers \ {NoUser}, teamId \in TeamIds, fail \in {"none", "delete"} :
        DeleteTeam(caller, teamId, fail) =>
          /\ teams' = {t \in teams : t.id # teamId}
          /\ team_members' = {m \in team_members : m.team_id # teamId}
          /\ invitations' = {i \in invitations : i.team_id # teamId}
          /\ activity_logs' = {l \in activity_logs : l.team_id # teamId}
          /\ users' = users
          /\ authUsers' = authUsers]_vars

\* a team that had a member was deleted while another team keeps its rows
C14_Witness ==
  /\ ret.op = "deleteTeam"
  /\ ret.result = "value"
  /\ ret.team < nextTeamId
  /\ ret.team \notin Ids(teams)
  /\ team_members # {}
  /\ \E u \in users : OwnRows(u.id) = {}

MutationHandlers ==
  {"signUp", "signIn", "updatePassword", "updateAccount", "deleteAccount",
   "removeTeamMember", "inviteTeamMember"}

\* C15: a mutation handler calls log_activity exactly once in a call that
\* succeeds, and not at all in a call that returns an error.
C15_LogExactlyOnce ==
  [][ret'.op \in MutationHandlers =>
      /\ ret'.result \in {"success", "redirect", "checkout"} => ret'.logs = 1
      /\ ret'.result = "error" => ret'.logs = 0]_vars

\* C16: when the log_activity call of a handler fails, the handler still
\* returns its success value or its redirect, the mutation it made is in
\* place, and the log has no new entry.
C16_LogFailureNotFatal ==
  [][ret'.op \in MutationHandlers =>
      /\ ret'.op = "inviteTeamMember" =>
         \A caller \in Callers, form \in InviteForms :
           InviteTeamMember(caller, form.email, form.role, "log") =>
             /\ ret'.result = "success"
             /\ \E i \in invitations' :
                  i \notin invitations /\ i.email = form.email /\ i.status = "pending"
             /\ activity_logs' = activity_logs
      /\ ret'.op = "removeTeamMember" =>
         \A caller \in Callers, memberId \in MemberIdInputs :
           RemoveTeamMember(caller, memberId, "log") =>
             /\ ret'.result = "success"
             /\ \A m \in team_members', own \in OwnRows(caller) :
                  ~(m.team_id = own.team_id /\ <<m.id, memberId>> \in {<<1, <<"1">>>>, <<2, <<"2">>>>})
             /\ activity_logs' = activity_logs
      /\ ret'.op = "signUp" =>
         \A caller \in Callers, form \in SignUpForms :
           SignUp(caller, form.email, form.password, form.inviteId, "log") =>
             /\ ret'.result = "redirect"
             /\ \E a \in authUsers', m \in team_members' :
                  /\ a \notin authUsers /\ a.email = form.email
                  /\ m \notin team_members /\ m.user_id = a.id
             /\ activity_logs' = activity_logs
      /\ ret'.op = "deleteAccount" =>
         \A caller \in Callers, password \in DeleteAccountForms :
           DeleteAccount(caller, password, "log") =>
             /\ ret'.result = "redirect"
             /\ \A a \in authUsers' : a.id # caller
             /\ Cardinality(activity_logs') = Cardinality(activity_logs)
      /\ ret'.op = "updatePassword" =>
         \A caller \in Callers, form \in UpdatePasswordForms :
           UpdatePassword(caller, form.currentPassword, form.newPassword,
                          form.confirmPassword, "log") =>
             /\ ret'.result = "success"
             /\ \E a \in authUsers' : a.id = caller /\ a.password = form.newPassword
             /\ activity_logs' = activity_logs
      /\ ret'.op = "updateAccount" =>
         \A caller \in Callers, name \in NameInputs :
           UpdateAccount(caller, name, "log") =>
             /\ ret'.result = "success"
             /\ \E u \in users' : u.id = caller /\ u.name = name
             /\ activity_logs' = activity_logs
      /\ ret'.op = "signIn" =>
         \A form \in SignInForms :
           SignIn(form.email, form.password, form.redirect, "log") =>
             /\ ret'.result \in {"redirect", "checkout"}
             /\ activity_logs' = activity_logs]_vars

\* a removal and an invitation went through with an empty log
C16_Witness ==
  /\ ret.op \in {"removeTeamMember", "inviteTeamMember"}
  /\ ret.result = "success"
  /\ ret.logs = 1
  /\ activity_logs = {}
  /\ nextLogId = 1

\* C17 as stated: while its team exists, a log entry is neither removed nor
\* changed by any step.
C17_AppendOnly ==
  [][\A l \in activity_logs :
       (\E t \in teams' : t.id = l.team_id) => l \in activity_logs']_vars

\* C17 amended: while its team exists, a log entry keeps its id, its team and
\* its action in every step, and its user_id either stays or becomes null in
\* the step that deletes the identity of that user.
C17_AppendOnlyButActor ==
  [][\A l \in activity_logs :
       (\E t \in teams' : t.id = l.team_id) =>
         \E k \in activity_logs' :
           /\ k.id = l.id /\ k.team_id = l.team_id /\ k.action = l.action
           /\ \/ k.user_id = l.user_id
              \/ /\ k.user_id = NoUser
                 /\ \E a \in authUsers : a.id = l.user_id
                 /\ \A a \in authUsers' : a.id # l.user_id]_vars

\* an entry whose actor was deleted, in the log of a team that still exists
C17_Witness ==
  /\ ret.op = "deleteAccount"
  /\ \E l \in activity_logs :
       l.user_id = NoUser /\ \E t \in teams : t.id = l.team_id

\* C18: no mutation handler lets an exception escape: whatever call fails,
\* the handler returns a value (an error, a success) or redirects.
C18_NoExceptionEscapes ==
  [][ret'.op \in MutationHandlers => ret'.result # "throw"]_vars

\* C19: a mutation handler that is given a form that fails its validation
\* returns an error without any call to the identity provider or the data
\* store, and every table is unchanged.
C19_ValidationFirst ==
  [][ret'.op \in MutationHandlers =>
      LET Rejected == ret'.result = "error" /\ ~ret'.remote /\ UNCHANGED tables IN
      /\ ret'.op = "signUp" =>
         \A form \in SignUpForms :
           (form.email = "nope" \/ form.password = "short" \/ form.inviteId = Absent) =>
             \A caller \in Callers, fail \in SignUpCalls :
               SignUp(caller, form.email, form.password, form.inviteId, fail) => Rejected
      /\ ret'.op = "signIn" =>
         \A form \in SignInForms :
           (form.email = "nope" \/ form.password = "short") =>
             \A fail \in SignInCalls :
               SignIn(form.email, form.password, form.redirect, fail) => Rejected
      /\ ret'.op = "updatePassword" =>
         \A form \in UpdatePasswordForms :
           "short" \in {form.currentPassword, form.newPassword, form.confirmPassword} =>
             \A caller \in Callers, fail \in UpdatePasswordCalls :
               UpdatePassword(caller, form.currentPassword, form.newPassword,
                              form.confirmPassword, fail) => Rejected
      /\ ret'.op = "updateAccount" =>
         \A caller \in Callers, fail \in UpdateAccountCalls :
           UpdateAccount(caller, "", fail) => Rejected
      /\ ret'.op = "deleteAccount" =>
         \A caller \in Callers, fail \in DeleteAccountCalls :
           DeleteAccount(caller, "short", fail) => Rejected
      /\ ret'.op = "removeTeamMember" =>
         \A caller \in Callers, fail \in RemoveCalls :
           RemoveTeamMember(caller, <<"x">>, fail) => Rejected
      /\ ret'.op = "inviteTeamMember" =>
         \A form \in InviteForms :
           (form.email = "nope" \/ form.role = "guest") =>
             \A caller \in Callers, fail \in InviteCalls :
               InviteTeamMember(caller, form.email, form.role, fail) => Rejected]_vars

\* a form was rejected on its shape while identities and teams exist
C19_Witness ==
  /\ ret.op \in MutationHandlers
  /\ ret.result = "error"
  /\ ~ret.remote
  /\ authUsers # {}
  /\ team_members # {}

\* C20: resolving the current profile returns null for a request without an
\* identity and for an identity without a profile row, and never returns a
\* soft-deleted profile.
C20_GetUser ==
  [][ret'.op \in {"getUser", "auth.getUser"} =>
      \A caller \in Callers :
        (GetUserProfile(caller) \/ AuthGetUser(caller)) =>
          /\ ret'.result \in {"null", "value"}
          /\ ret'.result = "value" =>
               (caller # NoUser /\ \E u \in users : u.id = caller /\ ~u.deleted)]_vars

\* C21: under the adopted policies a request with a caller's session reads,
\* inserts and updates only the profile row whose id is the caller's identity
\* id, a direct delete removes no profile row, and a profile row disappears
\* only in a step that deletes its identity.
C21_ProfileOwnRowOnly ==
  [][Adopted(schema) =>
       /\ (ret'.op = "select" /\ ret'.result = "value") =>
            \A caller \in Callers :
              Select(caller, "users") => ret'.rows \subseteq {caller}
       /\ ret'.op = "insert" =>
            \A caller \in Callers, id \in UserIds :
              InsertProfile(caller, id) =>
                /\ users \subseteq users'
                /\ \A u \in users' \ users : u.id = caller
       /\ ret'.op = "update" =>
            \A caller \in Callers, id \in UserIds, name \in NameInputs :
              UpdateProfile(caller, id, name) =>
                \A u \in users : u \notin users' => u.id = caller
       /\ ret'.op = "delete" =>
            \A caller \in Callers, id \in UserIds :
              DeleteProfile(caller, id) => UNCHANGED tables
       /\ \A u \in users :
            u.id \notin Ids(users') =>
              u.id \in Ids(authUsers) /\ u.id \notin Ids(authUsers')]_vars

\* a caller read the profiles while another identity's profile existed, and
\* got its own row only
C21_Witness ==
  /\ Adopted(schema)
  /\ ret.op = "select" /\ ret.result = "value" /\ ret.msg = "users"
  /\ Cardinality(ret.rows) = 1
  /\ Cardinality(users) = 2

Commands == {"select", "insert", "update", "delete"}
OpenTables == {"teams", "team_members", "invitations", "activity_logs"}

\* C22: once every migration is applied, no policy in force has a predicate
\* that queries a table, so no request runs into a cycle of policies, and
\* every authenticated caller has a select policy with the predicate true on
\* teams, team_members, invitations and activity_logs: a select of one of
\* them returns every row of the table.
C22_NoPolicyQueriesATable ==
  [][schema.applied = Len(MigrationNames) =>
       /\ \A p \in schema.policies : Reads(p) = {}
       /\ \A tbl \in Tables, cmd \in Commands, caller \in Callers :
            ~InfiniteRecursion(schema, tbl, cmd, caller)
       /\ \A tbl \in OpenTables :
            \E p \in schema.policies :
              /\ p.tbl = tbl /\ p.cmd = "select"
              /\ "authenticated" \in p.to /\ UsingTrue \in p.pred
       /\ ret'.op = "select" =>
            \A caller \in Callers \ {NoUser}, tbl \in OpenTables :
              Select(caller, tbl) =>
                ret'.result = "value" /\ ret'.rows = Ids(Rows(tbl))]_vars

\* with every migration applied, a caller listed the memberships of two teams
C22_Witness ==
  /\ schema.applied = Len(MigrationNames)
  /\ ret.op = "select" /\ ret.result = "value" /\ ret.msg = "team_members"
  /\ ret.rows = Ids(team_members)
  /\ Cardinality({m.team_id : m \in team_members}) = 2

\* C25: after the enhanced-invitation migration and then its rollback the
\* schema is the one the migrations before the enhanced-invitation migration
\* left: the same row level security, columns, defaults, comments, indexes,
\* functions and policies.
C25_RollbackRestores ==
  schema.applied = Len(MigrationNames) =>
    [schema EXCEPT !.applied = Len(MigrationNames) - 2] = Migrated(Len(MigrationNames) - 2)

\* the rollback has been applied to a database that went through the enhanced
\* invitation system, and the application has data in it
C25_Witness ==
  /\ schema.applied = Len(MigrationNames)
  /\ "teams.invite_code" \notin schema.columns
  /\ "teams.invite_code" \in Migrated(Len(MigrationNames) - 1).columns
  /\ invitations # {}

\* C23: createTeam inserts the team row and then, in a separate step, the
\* membership of its userId argument with role 'owner'.  After the first
\* step the team has no membership.  When the second insert succeeds the
\* team has exactly one membership, of that user with role 'owner'; when it
\* fails createTeam throws, and the team row stays where it was, without a
\* membership.
C23_CreateTeamTwoSteps ==
  [][/\ \A caller \in Callers, name \in TeamNameInputs, userId \in UserIds :
          (CreateTeamInsertTeam(caller, name, userId, "none") /\ caller # NoUser) =>
            /\ ret' = ret
            /\ \E t \in teams' \ teams :
                 /\ \A m \in team_members' : m.team_id # t.id
                 /\ [user_id |-> userId, team_id |-> t.id] \in pendingCreateTeam'
     /\ ret'.op = "createTeam" =>
          \A call \in pendingCreateTeam, fail \in CreateTeamCalls :
            CreateTeamInsertMember(call, fail) =>
              /\ ret'.result \in {"value", "throw"}
              /\ ret'.result = "value" =>
                   \E m \in team_members' :
                     /\ {x \in team_members' : x.team_id = call.team_id} = {m}
                     /\ m.user_id = call.user_id /\ m.role = "owner"
              /\ ret'.result = "throw" =>
                   /\ teams' = teams
                   /\ team_members' = team_members
                   /\ \A m \in team_members' : m.team_id # call.team_id]_vars

\* createTeam threw at its second insert and left its team without a membership
C23_Witness ==
  /\ ret.op = "createTeam" /\ ret.result = "throw"
  /\ \E t \in teams : t.id = ret.team /\ \A m \in team_members : m.team_id # t.id

\* C24: a signUp step sets an invitation from 'pending' to 'accepted' only
\* when it does not return an error and adds a membership in the invitation's
\* team: an invitation a failed signUp looked up is still pending.
C24_AcceptedOnlyWithMembership ==
  [][ret'.op = "signUp" =>
       \A i \in invitations, j \in invitations' :
         (j.id = i.id /\ i.status = "pending" /\ j.status = "accepted") =>
           /\ ret'.result # "error"
           /\ \E m \in team_members' \ team_members : m.team_id = i.team_id]_vars

\* C26: under every interleaving of concurrent inviteTeamMember calls no two
\* invitation rows with status 'pending' have the same team id and email.
C26_NoDuplicatePending ==
  \A i \in invitations, j \in invitations :
    (i.team_id = j.team_id /\ i.email = j.email
     /\ i.status = "pending" /\ j.status = "pending") => i = j

\* C27: every identity has at most one membership row, so the single-row
\* lookup of the membership by user id finds the row of every member.
C27_AtMostOneMembership ==
  \A a \in authUsers :
    /\ Cardinality({m \in team_members : m.user_id = a.id}) <= 1
    /\ (\E m \in team_members : m.user_id = a.id) => MemberOf(a.id) # NoRow

\* C28: every team that has a membership has a membership with role 'owner'.
C28_TeamKeepsOwner ==
  \A t \in teams :
    (\E m \in team_members : m.team_id = t.id) =>
      \E m \in team_members : m.team_id = t.id /\ m.role = "owner"

\* C29: a removeTeamMember call that deletes no membership row returns an
\* error and logs nothing: the success result and the REMOVE_TEAM_MEMBER
\* activity come only with a deleted row.
C29_SuccessOnlyWhenDeleted ==
  [][(ret'.op = "removeTeamMember" /\ team_members' = team_members) =>
       /\ ret'.result = "error"
       /\ ret'.logs = 0
       /\ activity_logs' = activity_logs]_vars

\* C30: an updatePassword call whose current password is not the password of
\* the caller's identity returns an error and leaves the credential as it was.
C30_CurrentPasswordVerified ==
  [][ret'.op = "updatePassword" =>
       \A caller \in Callers \ {NoUser}, form \in UpdatePasswordForms,
          fail \in UpdatePasswordCalls :
         (/\ \E a \in authUsers : a.id = caller /\ a.password # form.currentPassword
          /\ UpdatePassword(caller, form.currentPassword, form.newPassword,
                            form.confirmPassword, fail))
         => ret'.result = "error" /\ authUsers' = authUsers]_vars

====
